---- MODULE Spec2Model ----
(***************************************************************************)
(* Model of the Entropy client core:                                       *)
(*   - the resource lock manager of MiscMixin                              *)
(*     (lib/entropy/client/interfaces/methods.py), as run by several OS    *)
(*     processes contending for one lock file;                             *)
(*   - the boolean dependency string parser DependencyStringParser         *)
(*     (libraries/entropy/dep.py).                                         *)
(***************************************************************************)
EXTENDS Integers, Sequences, FiniteSets, TLC

(***************************************************************************)
(* Bounds.                                                                 *)
(***************************************************************************)
MaxInodes == 2       \* lock-file inodes alive at the same time
MaxCount == 2        \* largest mapped['count'] a process may reach
MaxLockCount == 1    \* largest max_lock_count handed to _wait_resource

\* Two OS processes share the lock path.
Procs == {1, 2}
Inodes == 1..MaxInodes

NoFile == 0          \* the lock path does not exist
NoRef == [ino |-> 0, mode |-> "none"]    \* mapped['ref'] is None

VARIABLES
    lockfile,        \* etpConst['locks']['using_resources']: inode the path names, or NoFile
    content,         \* inode -> text stored in the file
    FILE_LOCK_MAP,   \* process -> MiscMixin._FILE_LOCK_MAP[lock_path]: count, ref
    leaked,          \* process -> locked descriptors inherited across execv
    pc,              \* process -> position inside the running call
    call,            \* process -> the pid_f a blocking _file_lock_create waits on
    wait,            \* process -> state of the running _wait_resource loop
    cache,           \* process -> TRUE when the in-RAM caches hold data
    last             \* the call that returned last: process, operation, value

lockvars == <<lockfile, content, FILE_LOCK_MAP, leaked, pc, call, wait,
              cache, last>>

VARIABLES
    dep,             \* DependencyStringParser.__dep: the dependency string
    repo,            \* atoms that entropy_repository.atomMatch finds (rc == 0)
    result           \* what parse() gave its caller, NoResult before the call

depvars == <<dep, repo, result>>

VARIABLES
    available,            \* ids of settings['repositories']['available']
    temporary,            \* available ids whose metadata has '__temporary__'
    excluded,             \* ids of settings['repositories']['excluded']
    order,                \* settings['repositories']['order']
    conf,                 \* configuration files: id -> absent, enabled, disabled
    enabled_repos,        \* self._enabled_repos
    repodb_cache,         \* self._repodb_cache: id -> cached handle
    memory_db_instances,  \* self._memory_db_instances: id -> instance
    repo_error_messages_cache,  \* self._repo_error_messages_cache
    storage,              \* id -> missing, ok, corrupt: the repository storage
    last_call               \* the call that returned last and what it gave

repovars == <<available, temporary, excluded, order, conf, enabled_repos,
              repodb_cache, memory_db_instances, repo_error_messages_cache,
              storage, last_call>>

VARIABLES
    ver_data,        \* the (version, tag, revision) triples compared
    ver_result       \* what the comparisons gave, NoVerResult before them

vervars == <<ver_data, ver_result>>

\* no number: a number has d >= 1
Undecided == [n |-> 0, d |-> 0]

\* a version with no tag and the revision 0
Untagged(ver) == [ver |-> ver, tag |-> <<>>, rev |-> 0]

NoVerResult ==
    [op |-> "none", ab |-> Undecided, ba |-> Undecided, bc |-> Undecided,
     ac |-> Undecided]

\* nothing to compare
NoVersions ==
    /\ ver_data = <<Untagged(<<>>), Untagged(<<>>), Untagged(<<>>)>>
    /\ ver_result = NoVerResult

VARIABLES
    inputs,          \* the copy of the list that _generic_sorter works on
    sorter           \* the call of the sorter: who called, with what, where
                     \* it is, how many turns of the while loop it made

sortvars == <<inputs, sorter>>

NoSorter == [op |-> "none", inputlist |-> <<>>, pc |-> "idle", passes |-> 0]

\* nothing to sort
NoSorting == inputs = <<>> /\ sorter = NoSorter

VARIABLES
    depend,          \* the dependency atom given to dep_getusedeps
    usedeps          \* what dep_getusedeps did with it, NoUseDeps before

usevars == <<depend, usedeps>>

NoUseDeps == [op |-> "none", raised |-> FALSE, built |-> <<>>, ret |-> <<>>]

\* no atom was looked at
NoUseDependency == depend = <<>> /\ usedeps = NoUseDeps

VARIABLES
    setting_files,        \* the mask and unmask files: status and lines
    masking,              \* the mask and unmask keywords SystemSettings read
    live_packagemasking,  \* settings['live_packagemasking']
    mask_first,           \* the handle looks at user masks before unmasks
    live_persistent,      \* the live layer outlives SystemSettings.clear()
    mask_call             \* the last mask_package or unmask_package call:
                          \* its arguments, whether the package was masked
                          \* when it was made, what it returned

maskvars == <<setting_files, masking, live_packagemasking, mask_first,
              live_persistent, mask_call>>

NoLiveMasking == [mask_matches |-> {}, unmask_matches |-> {}]

NoMaskCall == [op |-> "none", package_match |-> <<0, "">>, method |-> "",
               dry_run |-> FALSE, masked |-> FALSE, ret |-> "none"]

\* no mask or unmask file, nothing masked
NoMasking ==
    /\ setting_files = [src \in {"mask", "unmask", "mask_d", "unmask_d"} |->
                           [status |-> "missing", lines |-> <<>>]]
    /\ masking = [mask |-> {}, unmask |-> {}]
    /\ live_packagemasking = NoLiveMasking
    /\ mask_first = TRUE
    /\ live_persistent = TRUE
    /\ mask_call = NoMaskCall

(***************************************************************************)
(* Text of a pid: str(os.getpid()), and the strip() of the text read back. *)
(***************************************************************************)
Digit == <<"0", "1", "2", "3", "4", "5", "6", "7", "8", "9">>

RECURSIVE Str(_)
Str(n) == IF n < 10 THEN <<Digit[n + 1]>>
          ELSE Str(n \div 10) \o <<Digit[(n % 10) + 1]>>

RECURSIVE Strip(_)
Strip(s) == IF s = <<>> THEN s
            ELSE IF Head(s) = " " THEN Strip(Tail(s))
            ELSE IF s[Len(s)] = " " THEN Strip(SubSeq(s, 1, Len(s) - 1))
            ELSE s

\* pid_f.read(128)
Read128(s) == IF Len(s) > 128 THEN SubSeq(s, 1, 128) ELSE s

Getpid(p) == 40 + p

(***************************************************************************)
(* The OS side: inodes and per-descriptor advisory locks (FlockFile).      *)
(***************************************************************************)
NoCall == [shared |-> FALSE, ino |-> 0]
NoWait == [active |-> FALSE, lock_count |-> 0, max |-> 0, shared |-> FALSE]
NoLast == [p |-> 0, op |-> "none", val |-> "none", how |-> "none"]
NoMapped == [count |-> 0, ref |-> NoRef]

\* every lock the OS holds: owner descriptor, inode, mode
Locks ==
    {[own |-> <<p, "ref">>, ino |-> FILE_LOCK_MAP[p].ref.ino,
      mode |-> FILE_LOCK_MAP[p].ref.mode] :
        p \in {q \in Procs : FILE_LOCK_MAP[q].ref # NoRef}}
    \cup
    UNION {{[own |-> <<p, "leak">>, ino |-> l.ino, mode |-> l.mode] :
              l \in leaked[p]} : p \in Procs}

\* flock on the descriptor own of inode ino in the given mode is grantable
Grantable(own, ino, mode) ==
    \A l \in Locks :
        (l.ino = ino /\ l.own # own) => (mode = "sh" /\ l.mode = "sh")

InodeInUse(i) ==
    \/ lockfile = i
    \/ \E p \in Procs :
        \/ FILE_LOCK_MAP[p].ref.ino = i
        \/ \E l \in leaked[p] : l.ino = i
        \/ pc[p] = "flock" /\ call[p].ino = i

FreeInodes == {i \in Inodes : ~InodeInUse(i)}

NewInode == CHOOSE i \in FreeInodes : \A j \in FreeInodes : i <= j

\* open(pidfile, "a+") is possible within the inode bound
CanOpen == lockfile # NoFile \/ FreeInodes # {}

\* inode that open(pidfile, "a+") yields, and the file contents after it
OpenedInode == IF lockfile # NoFile THEN lockfile ELSE NewInode

OpenedContent == IF lockfile # NoFile THEN content
                 ELSE [content EXCEPT ![NewInode] = <<>>]

\* the OS frees the data of an inode no name and no descriptor refers to
Reclaim(c) == [i \in Inodes |-> IF InodeInUse(i)' THEN c[i] ELSE <<>>]

ModeOf(shared) == IF shared THEN "sh" ELSE "ex"

BoolStr(b) == IF b THEN "true" ELSE "false"

(***************************************************************************)
(* Initial state: no lock file, every process idle with an empty map.      *)
(***************************************************************************)
LockInit ==
    /\ lockfile = NoFile
    /\ content = [i \in Inodes |-> <<>>]
    /\ FILE_LOCK_MAP = [p \in Procs |-> NoMapped]
    /\ leaked = [p \in Procs |-> {}]
    /\ pc = [p \in Procs |-> "idle"]
    /\ call = [p \in Procs |-> NoCall]
    /\ wait = [p \in Procs |-> NoWait]
    /\ cache = [p \in Procs |-> FALSE]
    /\ last = NoLast

(***************************************************************************)
(* _wait_resource: the loop body once lock_func has returned `acquired`.   *)
(***************************************************************************)
\* WaitReturn giving up one poll late: lock_count > max_lock_count
WaitReturnOffByOne(p, acquired) ==
    IF acquired
    THEN /\ wait' = [wait EXCEPT ![p] = NoWait]
         /\ last' = [p |-> p, op |-> "wait", val |-> "false", how |-> "none"]
         /\ pc' = [pc EXCEPT ![p] = "idle"]
    ELSE IF wait[p].lock_count > wait[p].max
    THEN /\ wait' = [wait EXCEPT ![p] = NoWait]
         /\ last' = [p |-> p, op |-> "wait", val |-> "true", how |-> "none"]
         /\ pc' = [pc EXCEPT ![p] = "idle"]
    ELSE /\ wait' = [wait EXCEPT ![p].lock_count = @ + 1]
         /\ last' = last
         /\ pc' = [pc EXCEPT ![p] = "poll"]

WaitReturn(p, acquired) ==
    IF acquired
    THEN /\ wait' = [wait EXCEPT ![p] = NoWait]
         /\ last' = [p |-> p, op |-> "wait", val |-> "false", how |-> "none"]
         /\ pc' = [pc EXCEPT ![p] = "idle"]
    ELSE IF wait[p].lock_count >= wait[p].max
    THEN /\ wait' = [wait EXCEPT ![p] = NoWait]
         /\ last' = [p |-> p, op |-> "wait", val |-> "true", how |-> "none"]
         /\ pc' = [pc EXCEPT ![p] = "idle"]
    ELSE /\ wait' = [wait EXCEPT ![p].lock_count = @ + 1]
         /\ last' = last
         /\ pc' = [pc EXCEPT ![p] = "poll"]

(***************************************************************************)
(* _lock_resource returning `acquired`, to lock_resources' caller or to    *)
(* the polling loop of _wait_resource.  `how` records the return taken.    *)
(***************************************************************************)
LockReturn(p, acquired, how) ==
    IF wait[p].active
    THEN WaitReturn(p, acquired)
    ELSE /\ last' = [p |-> p, op |-> "lock", val |-> BoolStr(acquired),
                     how |-> how]
         /\ pc' = [pc EXCEPT ![p] = "idle"]
         /\ wait' = wait

(***************************************************************************)
(* _file_lock_create from the answer of flock on the opened inode to its   *)
(* return, and the tail of _lock_resource.  c is the file contents after   *)
(* the open.                                                               *)
(***************************************************************************)
FileLockCreate(p, shared, ino, granted, c) ==
    /\ IF granted
       THEN /\ FILE_LOCK_MAP' = [FILE_LOCK_MAP EXCEPT ![p] =
                    [count |-> @.count + 1,
                     ref |-> [ino |-> ino, mode |-> ModeOf(shared)]]]
            /\ cache' = [cache EXCEPT ![p] = FALSE]
            /\ LockReturn(p, TRUE, "flock")
       ELSE LET stored_pid == Strip(Read128(c[ino]))
            IN  /\ IF Str(Getpid(p)) = stored_pid
                   THEN /\ FILE_LOCK_MAP' = [FILE_LOCK_MAP EXCEPT
                                               ![p].count = @ + 1]
                        /\ LockReturn(p, TRUE, "pid")
                   ELSE /\ FILE_LOCK_MAP' = FILE_LOCK_MAP
                        /\ LockReturn(p, FALSE, "busy")
                /\ cache' = cache
    /\ call' = [call EXCEPT ![p] = NoCall]
    /\ content' = Reclaim(IF granted /\ ~shared
                          THEN [c EXCEPT ![ino] = Str(Getpid(p))]
                          ELSE c)

(***************************************************************************)
(* _lock_resource: a non-blocking call runs to its return; a blocking call *)
(* runs to the flock it waits in.                                          *)
(***************************************************************************)
LockResource(p, blocking, shared, openok) ==
    IF FILE_LOCK_MAP[p].ref # NoRef
    THEN \* reentrant lock, already acquired
         /\ LockReturn(p, TRUE, "reentrant")
         /\ UNCHANGED <<lockfile, content, FILE_LOCK_MAP, leaked, call, cache>>
    ELSE IF ~openok
    THEN \* open() fails with ENOENT or EACCES
         /\ LockReturn(p, FALSE, "open")
         /\ UNCHANGED <<lockfile, content, FILE_LOCK_MAP, leaked, call, cache>>
    ELSE /\ CanOpen
         /\ lockfile' = OpenedInode
         /\ leaked' = leaked
         /\ IF blocking
            THEN /\ content' = OpenedContent
                 /\ call' = [call EXCEPT ![p] = [shared |-> shared,
                                                 ino |-> OpenedInode]]
                 /\ pc' = [pc EXCEPT ![p] = "flock"]
                 /\ UNCHANGED <<FILE_LOCK_MAP, wait, cache, last>>
            ELSE FileLockCreate(p, shared, OpenedInode,
                     Grantable(<<p, "ref">>, OpenedInode, ModeOf(shared)),
                     OpenedContent)

\* lock_resources(blocking, shared)
LockResources(p, blocking, shared, openok) ==
    /\ pc[p] = "idle"
    /\ UNCHANGED <<depvars, repovars, vervars, sortvars, usevars, maskvars>>
    /\ FILE_LOCK_MAP[p].count < MaxCount
    /\ LockResource(p, blocking, shared, openok)

\* flock_f.acquire_shared() / acquire_exclusive() returning in a blocking call
FlockGranted(p) ==
    /\ pc[p] = "flock"
    /\ UNCHANGED <<depvars, repovars, vervars, sortvars, usevars, maskvars>>
    /\ Grantable(<<p, "ref">>, call[p].ino, ModeOf(call[p].shared))
    /\ UNCHANGED <<lockfile, leaked>>
    /\ FileLockCreate(p, call[p].shared, call[p].ino, TRUE, content)

(***************************************************************************)
(* _promote_resource / promote_resources.                                  *)
(***************************************************************************)
PromoteResource(p, blocking) ==
    LET flock_f == FILE_LOCK_MAP[p].ref
    IN  IF flock_f = NoRef
        THEN /\ last' = [p |-> p, op |-> "promote", val |-> "IOError",
                         how |-> "none"]
             /\ UNCHANGED <<FILE_LOCK_MAP, pc>>
        ELSE IF blocking
        THEN /\ pc' = [pc EXCEPT ![p] = "promote"]
             /\ UNCHANGED <<FILE_LOCK_MAP, last>>
        ELSE LET acquired == Grantable(<<p, "ref">>, flock_f.ino, "ex")
             IN  /\ FILE_LOCK_MAP' =
                       IF acquired
                       THEN [FILE_LOCK_MAP EXCEPT ![p].ref.mode = "ex"]
                       ELSE FILE_LOCK_MAP
                 /\ last' = [p |-> p, op |-> "promote",
                             val |-> BoolStr(acquired), how |-> "none"]
                 /\ pc' = pc

PromoteResources(p, blocking) ==
    /\ pc[p] = "idle"
    /\ UNCHANGED <<depvars, repovars, vervars, sortvars, usevars, maskvars>>
    /\ PromoteResource(p, blocking)
    /\ UNCHANGED <<lockfile, content, leaked, call, wait, cache>>

\* PromoteGranted with a promote() that does not wait for the other holders
PromoteGrantedNoWait(p) ==
    /\ pc[p] = "promote"
    /\ UNCHANGED <<depvars, repovars, vervars, sortvars, usevars, maskvars>>
    /\ FILE_LOCK_MAP' = [FILE_LOCK_MAP EXCEPT ![p].ref.mode = "ex"]
    /\ last' = [p |-> p, op |-> "promote", val |-> "true", how |-> "none"]
    /\ pc' = [pc EXCEPT ![p] = "idle"]
    /\ UNCHANGED <<lockfile, content, leaked, call, wait, cache>>

\* flock_f.promote() returning inside a blocking _promote_resource
PromoteGranted(p) ==
    /\ pc[p] = "promote"
    /\ UNCHANGED <<depvars, repovars, vervars, sortvars, usevars, maskvars>>
    /\ Grantable(<<p, "ref">>, FILE_LOCK_MAP[p].ref.ino, "ex")
    /\ FILE_LOCK_MAP' = [FILE_LOCK_MAP EXCEPT ![p].ref.mode = "ex"]
    /\ last' = [p |-> p, op |-> "promote", val |-> "true", how |-> "none"]
    /\ pc' = [pc EXCEPT ![p] = "idle"]
    /\ UNCHANGED <<lockfile, content, leaked, call, wait, cache>>

(***************************************************************************)
(* _unlock_resource / unlock_resources.                                    *)
(***************************************************************************)
\* UnlockResource without the os.remove() of the lock file
UnlockResourceKeepsFile(p) ==
    LET mapped == FILE_LOCK_MAP[p]
        count == IF mapped.count > 0 THEN mapped.count - 1 ELSE mapped.count
    IN  /\ lockfile' = lockfile
        /\ FILE_LOCK_MAP' =
              IF count > 0 \/ mapped.ref = NoRef
              THEN [FILE_LOCK_MAP EXCEPT ![p].count = count]
              ELSE [FILE_LOCK_MAP EXCEPT ![p] =
                       [count |-> count, ref |-> NoRef]]

UnlockResource(p) ==
    LET mapped == FILE_LOCK_MAP[p]
        count == IF mapped.count > 0 THEN mapped.count - 1 ELSE mapped.count
    IN  IF count > 0
        THEN /\ FILE_LOCK_MAP' = [FILE_LOCK_MAP EXCEPT ![p].count = count]
             /\ lockfile' = lockfile
        ELSE IF mapped.ref # NoRef
        THEN \* os.remove() by name, then release() and close()
             /\ lockfile' = NoFile
             /\ FILE_LOCK_MAP' = [FILE_LOCK_MAP EXCEPT ![p] =
                                     [count |-> count, ref |-> NoRef]]
        ELSE /\ FILE_LOCK_MAP' = [FILE_LOCK_MAP EXCEPT ![p].count = count]
             /\ lockfile' = lockfile

\* what the release did: "kept" a lock still counted, "dropped" the OS lock
\* and the file, or nothing at all
UnlockHow(p) ==
    IF FILE_LOCK_MAP[p].count > 1 THEN "kept"
    ELSE IF FILE_LOCK_MAP[p].ref # NoRef THEN "dropped"
    ELSE "none"

UnlockResources(p) ==
    /\ pc[p] = "idle"
    /\ UNCHANGED <<depvars, repovars, vervars, sortvars, usevars, maskvars>>
    /\ UnlockResource(p)
    /\ last' = [p |-> p, op |-> "unlock", val |-> "none", how |-> UnlockHow(p)]
    /\ UNCHANGED <<leaked, pc, call, wait, cache>>
    /\ content' = Reclaim(content)

(***************************************************************************)
(* _wait_resource / wait_resources.                                        *)
(***************************************************************************)
WaitResources(p, max_lock_count, shared) ==
    /\ pc[p] = "idle"
    /\ UNCHANGED <<depvars, repovars, vervars, sortvars, usevars, maskvars>>
    /\ FILE_LOCK_MAP[p].count < MaxCount
    /\ wait' = [wait EXCEPT ![p] = [active |-> TRUE, lock_count |-> 0,
                                    max |-> max_lock_count,
                                    shared |-> shared]]
    /\ pc' = [pc EXCEPT ![p] = "poll"]
    /\ UNCHANGED <<lockfile, content, FILE_LOCK_MAP, leaked, call, cache, last>>

\* one lock_func(blocking=False, shared=shared) call of the loop
WaitPoll(p, openok) ==
    /\ pc[p] = "poll"
    /\ UNCHANGED <<depvars, repovars, vervars, sortvars, usevars, maskvars>>
    /\ LockResource(p, FALSE, wait[p].shared, openok)

(***************************************************************************)
(* The process replaces its image with execv() while it holds the lock:    *)
(* the class-level map starts empty again, the locked descriptor stays     *)
(* open in the process.  A behaviour has at most one execv().              *)
(***************************************************************************)
Execv(p) ==
    /\ pc[p] = "idle"
    /\ UNCHANGED <<depvars, repovars, vervars, sortvars, usevars, maskvars>>
    /\ \A q \in Procs : leaked[q] = {}
    /\ FILE_LOCK_MAP[p].ref # NoRef
    /\ leaked' = [leaked EXCEPT ![p] = @ \cup {FILE_LOCK_MAP[p].ref}]
    /\ FILE_LOCK_MAP' = [FILE_LOCK_MAP EXCEPT ![p] = NoMapped]
    /\ cache' = [cache EXCEPT ![p] = FALSE]
    /\ last' = NoLast
    /\ UNCHANGED <<lockfile, content, pc, call, wait>>

(***************************************************************************)
(* Any client operation that fills the settings and repository caches.     *)
(***************************************************************************)
FillCache(p) ==
    /\ pc[p] = "idle"
    /\ UNCHANGED <<depvars, repovars, vervars, sortvars, usevars, maskvars>>
    /\ ~cache[p]
    /\ cache' = [cache EXCEPT ![p] = TRUE]
    /\ UNCHANGED <<lockfile, content, FILE_LOCK_MAP, leaked, pc, call, wait,
                   last>>

(***************************************************************************)
(* Repository stack: RepositoryMixin (client/interfaces/methods.py).       *)
(* One process, one call at a time.  SystemSettings and the repository     *)
(* storage are the collaborators of the mixin: the settings keep the       *)
(* available map, the excluded map and the priority order and re-read the  *)
(* configuration files when cleared; a repository storage is present or    *)
(* not, and sound or not.                                                  *)
(***************************************************************************)
MaxOrder == 3        \* longest settings['repositories']['order']

\* a configured repository, a package file repository, a temporary one
RepoIds == {"repoA", "pkg.tbz2", "tmp"}

\* _is_package_repository: the id ends with etpConst['packagesext']
IsPackageRepository(id) == id = "pkg.tbz2"

\* repository_metadata.get('__temporary__') of the metadata built for id
IsTemporary(id) == id = "tmp"

\* what may become of the storage of a repository: the database of a
\* configured repository is downloaded, the one of a package file or of a
\* temporary repository is made when the repository is
StorageStates(id) ==
    IF IsPackageRepository(id) THEN <<"ok">>
    ELSE IF IsTemporary(id) THEN <<"ok", "corrupt">>
    ELSE <<"missing", "ok", "corrupt">>

NoHandle == [kind |-> "none", fresh |-> FALSE]

\* stage counts how many of add(id), remove(id), open(id) the last calls
\* made in a row; idx is the new_position_idx of a shift, 0 for another call
NoOutcome ==
    [op |-> "none", id |-> "none", idx |-> 0, ret |-> "none", stage |-> 0]

\* warned[id] counts the warnings a call puts out about the repository id,
\* when it is not available: none when the call starts
NoWarning == [id \in RepoIds |-> 0]

\* the state the methods of the mixin read and write
RepoState ==
    [available |-> available, temporary |-> temporary,
     excluded |-> excluded, order |-> order, conf |-> conf,
     enabled |-> enabled_repos, cache |-> repodb_cache,
     mem |-> memory_db_instances, storage |-> storage,
     msgs |-> repo_error_messages_cache, warned |-> NoWarning]

Range(seq) == {seq[i] : i \in 1..Len(seq)}

\* list.remove(x): drops the first occurrence
RECURSIVE RemoveFirst(_, _)
RemoveFirst(seq, x) ==
    IF seq = <<>> THEN seq
    ELSE IF Head(seq) = x THEN Tail(seq)
    ELSE <<Head(seq)>> \o RemoveFirst(Tail(seq), x)

\* list.insert(idx, x) for idx >= 0
InsertAt(seq, idx, x) ==
    LET at == IF idx > Len(seq) THEN Len(seq) ELSE idx
    IN  SubSeq(seq, 1, at) \o <<x>> \o SubSeq(seq, at + 1, Len(seq))

\* no repository configured, registered or opened
NoRepositories ==
    /\ available = {}
    /\ temporary = {}
    /\ excluded = {}
    /\ order = <<>>
    /\ conf = [id \in RepoIds |-> "absent"]
    /\ enabled_repos = <<>>
    /\ repodb_cache = [id \in RepoIds |-> NoHandle]
    /\ memory_db_instances = [id \in RepoIds |-> "none"]
    /\ repo_error_messages_cache = {}
    /\ storage = [id \in RepoIds |-> Head(StorageStates(id))]
    /\ last_call = NoOutcome

(***************************************************************************)
(* SystemSettings.clear(): the settings are read again from the            *)
(* configuration files.  A configured id that is enabled in the files is   *)
(* available, last in the order when it was not in it; an id the files     *)
(* comment out is excluded.  The registered package file and temporary     *)
(* repositories, which the files do not know, stay: only a remove discards *)
(* them.                                                                   *)
(***************************************************************************)
Configured(s) == {id \in RepoIds : s.conf[id] = "enabled"}

RECURSIVE AppendAll(_, _)
AppendAll(seq, ids) ==
    IF ids = {} THEN seq
    ELSE LET id == CHOOSE i \in ids : TRUE
         IN  AppendAll(Append(seq, id), ids \ {id})

SettingsClear(s) ==
    LET avail == {id \in s.available :
                     IsPackageRepository(id) \/ id \in s.temporary}
                 \cup Configured(s)
        kept == SelectSeq(s.order, LAMBDA id : id \in avail)
    IN  [s EXCEPT !.available = avail,
                  !.temporary = s.temporary \cap avail,
                  !.excluded = {id \in RepoIds : s.conf[id] = "disabled"},
                  !.order = AppendAll(kept, Configured(s) \ Range(kept))]

\* __conf_add_remove_repository: the value returned and the files after it
ConfAddRemoveDone(s, id, add) == add \/ s.conf[id] # "absent"

ConfAddRemove(s, id, add) ==
    [s EXCEPT !.conf[id] = IF add THEN "enabled" ELSE "absent"]

\* __conf_enable_disable_repository
ConfEnableDisableDone(s, id, enable) ==
    s.conf[id] = (IF enable THEN "disabled" ELSE "enabled")

ConfEnableDisable(s, id, enable) ==
    IF ConfEnableDisableDone(s, id, enable)
    THEN [s EXCEPT !.conf[id] = IF enable THEN "enabled" ELSE "disabled"]
    ELSE s

RepositoryErrors ==
    {"invalid repository id (1)", "invalid repository id (2)",
     "invalid repository id (3)", "repository not downloaded"}

\* _load_repository: the RepositoryError it raises, "none" when it returns
LoadError(s, id, enabled) ==
    IF /\ id \notin Range(enabled)
       /\ id \notin s.temporary
       /\ id \notin s.available
    THEN "invalid repository id (1)"
    ELSE IF id \notin s.available THEN "invalid repository id (2)"
    ELSE IF id \in s.temporary
         THEN IF s.mem[id] = "none" THEN "invalid repository id (3)"
              ELSE "none"
         ELSE IF s.storage[id] = "missing" THEN "repository not downloaded"
              ELSE "none"

\* _load_repository: the connection it returns
LoadRepository(s, id) ==
    IF id \in s.temporary
    THEN [kind |-> "mem", fresh |-> s.mem[id] = "new"]
    ELSE [kind |-> "own", fresh |-> TRUE]

\* _load_repository: the warning it puts out before it raises err, once
\* for an id as long as the id is in _repo_error_messages_cache
LoadWarning(s, id, err) ==
    IF err \in {"invalid repository id (1)", "repository not downloaded"}
       /\ id \notin s.msgs
    THEN [s EXCEPT !.msgs = @ \cup {id}, !.warned[id] = @ + 1]
    ELSE s

\* _open_repository
OpenRepository(s, id, enabled) ==
    IF s.cache[id] # NoHandle THEN [s |-> s, ret |-> "handle"]
    ELSE IF LoadError(s, id, enabled) # "none"
         THEN [s |-> LoadWarning(s, id, LoadError(s, id, enabled)),
               ret |-> LoadError(s, id, enabled)]
         ELSE [s |-> [s EXCEPT !.cache[id] = LoadRepository(s, id)],
               ret |-> "handle"]

\* ensure_closed_repo of _validate_repositories
EnsureClosedRepo(s, id) ==
    [s EXCEPT !.cache[id] = NoHandle, !.mem[id] = "none"]

\* _validate_repositories, quiet = False: the warning "Repository ... is not
\* available. Cannot validate" for an id that raised RepositoryError
NotAvailableWarning(s, id) == [s EXCEPT !.warned[id] = @ + 1]

\* _validate_repositories: a turn of its loop, then the turns for the rest
RECURSIVE ValidateLoop(_, _, _, _)
ValidateLoop(s, rest, all_repos, enabled) ==
    IF rest = <<>> THEN [s EXCEPT !.enabled = enabled]
    ELSE LET id == Head(rest)
             o == OpenRepository(s, id, all_repos)
         IN  IF o.ret \in RepositoryErrors
             THEN ValidateLoop(NotAvailableWarning(
                                   EnsureClosedRepo(o.s, id), id),
                               Tail(rest), all_repos, enabled)
             ELSE IF s.storage[id] = "corrupt"
             THEN ValidateLoop(EnsureClosedRepo(o.s, id), Tail(rest),
                               all_repos, enabled)
             ELSE ValidateLoop(o.s, Tail(rest), all_repos,
                               Append(enabled, id))

\* a _validate_repositories that adds to the enabled list it finds
ValidateRepositoriesKeepsEnabled(s) ==
    ValidateLoop([s EXCEPT !.msgs = {}], s.order, s.order, s.enabled)

ValidateRepositories(s) ==
    ValidateLoop([s EXCEPT !.msgs = {}], s.order, s.order, <<>>)

\* close_repositories
CloseRepositories(s, mask_clear) ==
    LET closed == [s EXCEPT !.cache = [id \in RepoIds |-> NoHandle]]
    IN  IF mask_clear THEN SettingsClear(closed) ELSE closed

\* add_repository; validate_repository_id accepts every id of RepoIds
\* an id that entropy.tools.validate_repository_id turns down
InvalidId == "bad id"

validate_repository_id(id) == id # InvalidId

AddRepository(s, id, is_temp) ==
    LET stub == [s EXCEPT !.available = @ \cup {id},
                          !.temporary = @ \ {id}]
    IN  IF IsPackageRepository(id) \/ is_temp
        THEN [s |-> ValidateRepositories(
                        [stub EXCEPT !.temporary =
                                         IF is_temp THEN @ \cup {id} ELSE @,
                                     !.order = <<id>> \o @]),
              ret |-> "True"]
        ELSE IF ~validate_repository_id(id)
        THEN [s |-> stub, ret |-> "SecurityError"]
        ELSE [s |-> ValidateRepositories(SettingsClear(
                        CloseRepositories(ConfAddRemove(stub, id, TRUE),
                                          TRUE))),
              ret |-> "True"]

\* _init_generic_temp_repository
InitGenericTempRepository(s, id) ==
    AddRepository([s EXCEPT !.mem[id] = "new"], id, TRUE)

Bool(b) == IF b THEN "True" ELSE "False"

\* a remove_repository that leaves the cached handle where it is
RemoveRepositoryKeepsCache(s, id, disable) ==
    LET done == id \in s.available \/ id \in s.excluded
        popped == [s EXCEPT !.available = @ \ {id},
                            !.temporary = @ \ {id},
                            !.excluded = @ \ {id},
                            !.enabled = RemoveFirst(@, id),
                            !.order = RemoveFirst(@, id)]
        saved == IF IsPackageRepository(id) THEN popped
                 ELSE IF disable THEN ConfEnableDisable(popped, id, FALSE)
                 ELSE ConfAddRemove(popped, id, FALSE)
        ret == IF IsPackageRepository(id) THEN TRUE
               ELSE IF disable THEN ConfEnableDisableDone(popped, id, FALSE)
               ELSE ConfAddRemoveDone(popped, id, FALSE)
        after == IF done THEN SettingsClear(saved) ELSE popped
    IN  [s |-> [after EXCEPT !.mem[id] = "none"],
         ret |-> Bool(done /\ ret)]

\* remove_repository
RemoveRepository(s, id, disable) ==
    LET done == id \in s.available \/ id \in s.excluded
        popped == [s EXCEPT !.available = @ \ {id},
                            !.temporary = @ \ {id},
                            !.excluded = @ \ {id},
                            !.enabled = RemoveFirst(@, id),
                            !.order = RemoveFirst(@, id),
                            !.cache[id] = NoHandle]
        saved == IF IsPackageRepository(id) THEN popped
                 ELSE IF disable THEN ConfEnableDisable(popped, id, FALSE)
                 ELSE ConfAddRemove(popped, id, FALSE)
        ret == IF IsPackageRepository(id) THEN TRUE
               ELSE IF disable THEN ConfEnableDisableDone(popped, id, FALSE)
               ELSE ConfAddRemoveDone(popped, id, FALSE)
        after == IF done THEN SettingsClear(saved) ELSE popped
    IN  [s |-> [after EXCEPT !.mem[id] = "none"],
         ret |-> Bool(done /\ ret)]

\* a shift_repository that puts the id last, whatever the index
ShiftRepositoryLast(s, id, idx) ==
    IF id \notin Range(s.order) THEN [s |-> s, ret |-> "ValueError"]
    ELSE LET moved == [s EXCEPT !.order = Append(RemoveFirst(@, id), id)]
         IN  [s |-> ValidateRepositories(CloseRepositories(
                        SettingsClear(moved), TRUE)),
              ret |-> "None"]

\* shift_repository
ShiftRepository(s, id, idx) ==
    IF id \notin Range(s.order) THEN [s |-> s, ret |-> "ValueError"]
    ELSE LET moved == [s EXCEPT !.order =
                                    InsertAt(RemoveFirst(@, id), idx, id)]
         IN  [s |-> ValidateRepositories(CloseRepositories(
                        SettingsClear(moved), TRUE)),
              ret |-> "None"]

\* enable_repository
EnableRepository(s, id) ==
    [s |-> ValidateRepositories(CloseRepositories(
               SettingsClear(ConfEnableDisable(s, id, TRUE)),
               TRUE)),
     ret |-> Bool(ConfEnableDisableDone(s, id, TRUE))]

\* disable_repository
DisableRepository(s, id) ==
    IF IsPackageRepository(id) THEN [s |-> s, ret |-> "ValueError"]
    ELSE IF id \notin s.available THEN [s |-> s, ret |-> "ValueError"]
    ELSE LET deleted == [s EXCEPT !.available = @ \ {id},
                                  !.temporary = @ \ {id}]
         IN  IF id \notin Range(s.order)
             THEN [s |-> deleted, ret |-> "ValueError"]
             ELSE LET gone == [deleted EXCEPT !.order = RemoveFirst(@, id)]
                  IN  [s |-> ValidateRepositories(CloseRepositories(
                                 SettingsClear(
                                     ConfEnableDisable(gone, id, FALSE)), TRUE)),
                       ret |-> Bool(ConfEnableDisableDone(gone, id, FALSE))]

\* the handles and instances that exist when a call starts are not new
Called(s) ==
    [s EXCEPT !.cache = [id \in RepoIds |->
                            IF s.cache[id] = NoHandle THEN NoHandle
                            ELSE [s.cache[id] EXCEPT !.fresh = FALSE]],
              !.mem = [id \in RepoIds |->
                          IF s.mem[id] = "new" THEN "old" ELSE s.mem[id]]]

Stage(op, id) ==
    IF op = "add" THEN 1
    ELSE IF op = "remove" /\ last_call.stage = 1 /\ last_call.id = id THEN 2
    ELSE IF op = "open" /\ last_call.stage = 2 /\ last_call.id = id THEN 3
    ELSE 0

\* the call op(id) returns r.ret and leaves the state r.s
ReturnAt(op, id, idx, res) == \E r \in {res} :
    /\ available' = r.s.available
    /\ temporary' = r.s.temporary
    /\ excluded' = r.s.excluded
    /\ order' = r.s.order
    /\ conf' = r.s.conf
    /\ enabled_repos' = r.s.enabled
    /\ repodb_cache' = r.s.cache
    /\ memory_db_instances' = r.s.mem
    /\ repo_error_messages_cache' = r.s.msgs
    /\ last_call' = [op |-> op, id |-> id, idx |-> idx, ret |-> r.ret,
                   stage |-> Stage(op, id)]
    /\ UNCHANGED storage

Return(op, id, res) == ReturnAt(op, id, 0, res)

Add ==
    /\ Len(order) < MaxOrder
    /\ \E id \in RepoIds :
          Return("add", id,
                 IF IsTemporary(id)
                 THEN InitGenericTempRepository(Called(RepoState), id)
                 ELSE AddRepository(Called(RepoState), id, FALSE))
    /\ UNCHANGED <<lockvars, depvars, vervars, sortvars, usevars, maskvars>>

Remove ==
    /\ \E id \in RepoIds, disable \in BOOLEAN :
          Return("remove", id,
                 RemoveRepository(Called(RepoState), id, disable))
    /\ UNCHANGED <<lockvars, depvars, vervars, sortvars, usevars, maskvars>>

Shift ==
    /\ \E id \in RepoIds, idx \in 0..(MaxOrder - 1) :
          ReturnAt("shift", id, idx,
                   ShiftRepository(Called(RepoState), id, idx))
    /\ UNCHANGED <<lockvars, depvars, vervars, sortvars, usevars, maskvars>>

Enable ==
    /\ \E id \in RepoIds :
          Return("enable", id, EnableRepository(Called(RepoState), id))
    /\ UNCHANGED <<lockvars, depvars, vervars, sortvars, usevars, maskvars>>

Disable ==
    /\ \E id \in RepoIds :
          Return("disable", id,
                 DisableRepository(Called(RepoState), id))
    /\ UNCHANGED <<lockvars, depvars, vervars, sortvars, usevars, maskvars>>

ValidateAll ==
    /\ Return("validateAll", "none",
              [s |-> ValidateRepositories(Called(RepoState)),
               ret |-> "None"])
    /\ UNCHANGED <<lockvars, depvars, vervars, sortvars, usevars, maskvars>>

CloseAll ==
    /\ \E mask_clear \in BOOLEAN :
          Return("closeAll", "none",
                 [s |-> CloseRepositories(Called(RepoState), mask_clear),
                  ret |-> "None"])
    /\ UNCHANGED <<lockvars, depvars, vervars, sortvars, usevars, maskvars>>

\* open_repository
Open ==
    /\ \E id \in RepoIds :
          Return("open", id,
                 OpenRepository(Called(RepoState), id, enabled_repos))
    /\ UNCHANGED <<lockvars, depvars, vervars, sortvars, usevars, maskvars>>

\* the storage of a repository is downloaded, damaged or deleted
StorageChange ==
    /\ \E id \in RepoIds, st \in {"missing", "ok", "corrupt"} :
          /\ st \in {StorageStates(id)[i] : i \in 1..Len(StorageStates(id))}
          /\ storage[id] # st
          /\ storage' = [storage EXCEPT ![id] = st]
    /\ UNCHANGED <<available, temporary, excluded, order, conf,
                   enabled_repos, repodb_cache, memory_db_instances,
                   repo_error_messages_cache, last_call>>
    /\ UNCHANGED <<lockvars, depvars, vervars, sortvars, usevars, maskvars>>

(***************************************************************************)
(* DependencyStringParser (libraries/entropy/dep.py).                      *)
(* A string is a sequence of characters.  A member of the list that        *)
(* __encode_sub builds is a string, [k |-> "s", v |-> characters], or a    *)
(* nested list, [k |-> "l", v |-> members].                                *)
(***************************************************************************)
MaxDepLen == 5       \* longest dependency string drawn character by character

LOGIC_AND == "&"
LOGIC_OR == "|"

\* two package atoms; the repository matches any subset of them
Atoms == {"a", "b"}
Chars == Atoms \cup {"(", ")", LOGIC_AND, LOGIC_OR}

StrItem(s) == [k |-> "s", v |-> s]
ListItem(l) == [k |-> "l", v |-> l]

NoResult == [status |-> "not called", exc |-> "none", caught |-> "none",
             matched |-> FALSE, outcome |-> <<>>, calls |-> <<>>]

\* no parser object exists
NoParser == dep = <<>> /\ repo = {} /\ result = NoResult

\* str.find / str.rfind of one character: 0-based index, -1 when absent
RECURSIVE Find(_, _, _)
Find(s, c, i) == IF i > Len(s) THEN -1
                 ELSE IF s[i] = c THEN i - 1
                 ELSE Find(s, c, i + 1)

RECURSIVE RFind(_, _, _)
RFind(s, c, i) == IF i < 1 THEN -1
                  ELSE IF s[i] = c THEN i - 1
                  ELSE RFind(s, c, i - 1)

\* a slice index as Python clamps it
SliceIndex(n, len) == IF n < 0 THEN (IF n + len < 0 THEN 0 ELSE n + len)
                      ELSE IF n > len THEN len ELSE n

\* s[lo:hi]
Slice(s, lo, hi) ==
    SubSeq(s, SliceIndex(lo, Len(s)) + 1, SliceIndex(hi, Len(s)))

Malformed == [err |-> "MalformedDependency", subs |-> <<>>]

\* subs after "if cur_str.strip(): subs.append(cur_str.strip())"
Flush(st) == IF Strip(st.cur_str) # <<>>
             THEN Append(st.subs, StrItem(Strip(st.cur_str)))
             ELSE st.subs

RECURSIVE EncodeSub(_)

\* one iteration of the loop of __split_subs
SplitChar(st, char) ==
    IF char = " " THEN st
    ELSE IF char = "(" /\ st.deep_count = 0
    THEN [st EXCEPT !.subs = Flush(st), !.cur_str = <<char>>,
                    !.deep_count = 1]
    ELSE IF char = "("
    THEN [st EXCEPT !.cur_str = Append(@, char), !.deep_count = @ + 1]
    ELSE IF char = LOGIC_OR /\ st.deep_count = 0
    THEN [st EXCEPT !.subs = Append(Flush(st), StrItem(<<char>>)),
                    !.cur_str = <<>>]
    ELSE IF char = LOGIC_AND /\ st.deep_count = 0
    THEN [st EXCEPT !.subs = Append(Flush(st), StrItem(<<char>>)),
                    !.cur_str = <<>>]
    ELSE IF char = ")"
    THEN IF st.deep_count - 1 = 0
         THEN LET deps == EncodeSub(Strip(Append(st.cur_str, char)))
              IN  IF deps.err # "none" THEN [st EXCEPT !.err = deps.err]
                  ELSE IF Len(deps.subs) = 1
                  THEN [st EXCEPT !.subs = Append(@, deps.subs[1]),
                                  !.cur_str = <<>>, !.deep_count = 0]
                  ELSE IF Len(deps.subs) > 0
                  THEN [st EXCEPT !.subs = Append(@, ListItem(deps.subs)),
                                  !.cur_str = <<>>, !.deep_count = 0]
                  ELSE [st EXCEPT !.err = "MalformedDependency"]
         ELSE [st EXCEPT !.cur_str = Append(@, char),
                         !.deep_count = @ - 1]
    ELSE [st EXCEPT !.cur_str = Append(@, char)]

RECURSIVE SplitLoop(_, _, _)
SplitLoop(substring, i, st) ==
    IF i > Len(substring) \/ st.err # "none" THEN st
    ELSE SplitLoop(substring, i + 1, SplitChar(st, substring[i]))

\* __split_subs: the members of one group, or the exception it raises
SplitSubs(substring) ==
    LET st == SplitLoop(substring, 1,
                        [deep_count |-> 0, cur_str |-> <<>>, subs |-> <<>>,
                         err |-> "none"])
    IN  IF st.err # "none" THEN [err |-> st.err, subs |-> <<>>]
        ELSE [err |-> "none",
              subs |-> IF st.cur_str # <<>>
                       THEN Append(st.subs, StrItem(Strip(st.cur_str)))
                       ELSE st.subs]

\* __encode_sub
EncodeSub(d) ==
    LET open_bracket == Find(d, "(", 1)
        closed_bracket == RFind(d, ")", Len(d))
        substring == Slice(d, open_bracket + 1, closed_bracket)
    IN  IF substring = <<>> THEN Malformed
        ELSE LET subs == SplitSubs(substring)
             IN  IF subs.err # "none" THEN subs
                 ELSE IF Len(subs.subs) = 0 THEN Malformed
                 ELSE subs

\* Dependency.__nonzero__: atomMatch finds the string (rc == 0)
Matches(el) == el \in repo

\* "op in iterable" and "[x for x in iterable if x != op]"
Has(iterable, op) ==
    \E i \in 1..Len(iterable) : iterable[i].k = "s" /\ iterable[i].v = <<op>>

Without(iterable, op) ==
    SelectSeq(iterable, LAMBDA x : ~(x.k = "s" /\ x.v = <<op>>))

\* how a call of __evaluate_subs ends: "return matched, outcome", an
\* exception, or falling off the end ("None"); calls lists the strings the
\* Dependency test was applied to so far
Pair(matched, outcome, calls) ==
    [status |-> "pair", matched |-> matched, outcome |-> outcome,
     calls |-> calls]

Raise(exc, calls) ==
    [status |-> exc, matched |-> FALSE, outcome |-> <<>>, calls |-> calls]

ReturnNone(calls) ==
    [status |-> "None", matched |-> FALSE, outcome |-> <<>>, calls |-> calls]

\* "matched, outcome = <r>": unpacking None raises TypeError
Unpack(r) == IF r.status = "None" THEN Raise("TypeError", r.calls) ELSE r

\* the AND loop over a list without sublists
RECURSIVE AndFlat(_, _, _)

\* variant: the loop has no break, every member is tested
AndFlatNoBreak(iterable, i, calls) ==
    IF i > Len(iterable)
    THEN IF \A j \in 1..Len(iterable) : Matches(iterable[j].v)
         THEN Pair(TRUE, [j \in 1..Len(iterable) |-> iterable[j].v], calls)
         ELSE Pair(FALSE, <<>>, calls)
    ELSE AndFlat(iterable, i + 1, Append(calls, iterable[i].v))

AndFlat(iterable, i, calls) ==
    IF i > Len(iterable)
    THEN Pair(TRUE, [j \in 1..Len(iterable) |-> iterable[j].v], calls)
    ELSE LET and_el == iterable[i].v
         IN  IF ~Matches(and_el) THEN Pair(FALSE, <<>>, Append(calls, and_el))
             ELSE AndFlat(iterable, i + 1, Append(calls, and_el))

\* the OR loop over a list without sublists
RECURSIVE OrFlat(_, _, _)
OrFlat(iterable, i, calls) ==
    IF i > Len(iterable) THEN Pair(FALSE, <<>>, calls)
    ELSE LET or_el == iterable[i].v
         IN  IF Matches(or_el) THEN Pair(TRUE, <<or_el>>, Append(calls, or_el))
             ELSE OrFlat(iterable, i + 1, Append(calls, or_el))

RECURSIVE EvaluateSubs(_, _)

\* the AND loop over a list with sublists
RECURSIVE AndNested(_, _, _, _)

\* variant: a failing member returns the leaves matched before it
AndNestedPartial(iterable, i, outcomes, calls) ==
    IF i > Len(iterable) THEN Pair(TRUE, outcomes, calls)
    ELSE LET and_el == iterable[i]
         IN  IF and_el.k = "l"
             THEN LET r == Unpack(EvaluateSubs(and_el.v, calls))
                  IN  IF r.status # "pair" THEN r
                      ELSE IF r.matched
                      THEN AndNested(iterable, i + 1, outcomes \o r.outcome,
                                     r.calls)
                      ELSE Pair(FALSE, outcomes, r.calls)
             ELSE IF Matches(and_el.v)
             THEN AndNested(iterable, i + 1, Append(outcomes, and_el.v),
                            Append(calls, and_el.v))
             ELSE Pair(FALSE, outcomes, Append(calls, and_el.v))

AndNested(iterable, i, outcomes, calls) ==
    IF i > Len(iterable) THEN Pair(TRUE, outcomes, calls)
    ELSE LET and_el == iterable[i]
         IN  IF and_el.k = "l"
             THEN LET r == Unpack(EvaluateSubs(and_el.v, calls))
                  IN  IF r.status # "pair" THEN r
                      ELSE IF r.matched
                      THEN AndNested(iterable, i + 1, outcomes \o r.outcome,
                                     r.calls)
                      ELSE Pair(FALSE, <<>>, r.calls)
             ELSE IF Matches(and_el.v)
             THEN AndNested(iterable, i + 1, Append(outcomes, and_el.v),
                            Append(calls, and_el.v))
             ELSE Pair(FALSE, <<>>, Append(calls, and_el.v))

\* the OR loop over a list with sublists
RECURSIVE OrNested(_, _, _)

\* variant: a failing nested group ends the loop
OrNestedStops(iterable, i, calls) ==
    IF i > Len(iterable) THEN Pair(FALSE, <<>>, calls)
    ELSE LET or_el == iterable[i]
         IN  IF or_el.k = "l"
             THEN LET r == Unpack(EvaluateSubs(or_el.v, calls))
                  IN  IF r.status # "pair" THEN r
                      ELSE IF r.matched THEN Pair(TRUE, r.outcome, r.calls)
                      ELSE Pair(FALSE, <<>>, r.calls)
             ELSE IF Matches(or_el.v)
             THEN Pair(TRUE, <<or_el.v>>, Append(calls, or_el.v))
             ELSE OrNested(iterable, i + 1, Append(calls, or_el.v))

OrNested(iterable, i, calls) ==
    IF i > Len(iterable) THEN Pair(FALSE, <<>>, calls)
    ELSE LET or_el == iterable[i]
         IN  IF or_el.k = "l"
             THEN LET r == Unpack(EvaluateSubs(or_el.v, calls))
                  IN  IF r.status # "pair" THEN r
                      ELSE IF r.matched THEN Pair(TRUE, r.outcome, r.calls)
                      ELSE OrNested(iterable, i + 1, r.calls)
             ELSE IF Matches(or_el.v)
             THEN Pair(TRUE, <<or_el.v>>, Append(calls, or_el.v))
             ELSE OrNested(iterable, i + 1, Append(calls, or_el.v))

\* __evaluate_subs
EvaluateSubs(iterable, calls) ==
    IF Has(iterable, LOGIC_AND) /\ Has(iterable, LOGIC_OR)
    THEN Raise("MalformedDependency", calls)
    ELSE LET _subs == SelectSeq(iterable, LAMBDA x : x.k = "l")
         IN  IF Len(_subs) = 0
             THEN IF Has(iterable, LOGIC_AND)
                  THEN AndFlat(Without(iterable, LOGIC_AND), 1, calls)
                  ELSE IF Has(iterable, LOGIC_OR)
                  THEN OrFlat(Without(iterable, LOGIC_OR), 1, calls)
                  ELSE Raise("MalformedDependency", calls)
             ELSE IF Has(iterable, LOGIC_AND)
                  THEN AndNested(Without(iterable, LOGIC_AND), 1, <<>>, calls)
                  ELSE IF Has(iterable, LOGIC_OR)
                  THEN OrNested(Without(iterable, LOGIC_OR), 1, calls)
                  ELSE ReturnNone(calls)

\* what parse() gives its caller: the pair it returns, by its last line or
\* by its except clause, or the exception that escapes it
Returned(r, caught) ==
    [status |-> "returned", exc |-> "none", caught |-> caught,
     matched |-> r.matched, outcome |-> r.outcome, calls |-> r.calls]

Escaped(r) ==
    [status |-> "raised", exc |-> r.status, caught |-> "none",
     matched |-> FALSE, outcome |-> <<>>, calls |-> r.calls]

\* parse
parse(d) ==
    LET subs == EncodeSub(<<"(">> \o d \o <<")">>)
    IN  IF subs.err # "none"
        THEN Returned(Pair(FALSE, <<>>, <<>>), subs.err)
        ELSE LET r == Unpack(EvaluateSubs(subs.subs, <<>>))
             IN  IF r.status = "pair" THEN Returned(r, "none")
                 ELSE IF r.status = "MalformedDependency"
                 THEN Returned(Pair(FALSE, <<>>, r.calls), r.status)
                 ELSE Escaped(r)

(***************************************************************************)
(* Dependency strings handed to the parser: every string of at most        *)
(* MaxDepLen characters, the same strings with blanks between the          *)
(* characters, and the same strings as a parenthesized group that stands   *)
(* alone, follows an atom and an operator, or precedes them.               *)
(***************************************************************************)
RawDeps(len) == UNION {[1..n -> Chars] : n \in 1..len}

RECURSIVE Spaced(_)
Spaced(s) == IF Len(s) <= 1 THEN s
             ELSE <<Head(s), " ">> \o Spaced(Tail(s))

Prefixes == {<<>>} \cup {<<a, op>> : a \in Atoms, op \in {LOGIC_AND, LOGIC_OR}}

Suffixes == {<<op, a>> : a \in Atoms, op \in {LOGIC_AND, LOGIC_OR}}

Grouped(s) == {pre \o <<"(">> \o s \o <<")">> : pre \in Prefixes}
              \cup {<<"(">> \o s \o <<")">> \o suf : suf \in Suffixes}

\* the dependency strings built on the string s
DepInputs(s) == {s, Spaced(s)} \cup Grouped(s)

DepInit ==
    /\ LockInit
    /\ NoMasking
    /\ NoUseDependency
    /\ NoSorting
    /\ NoRepositories
    /\ NoVersions
    /\ \E s \in RawDeps(MaxDepLen) : dep \in DepInputs(s)
    /\ repo \in SUBSET {<<a>> : a \in Atoms}
    /\ result = NoResult

\* parser = DependencyStringParser(dep, repo); parser.parse()
Parse ==
    /\ result = NoResult
    /\ result' = parse(dep)
    /\ UNCHANGED <<dep, repo>>
    /\ UNCHANGED <<lockvars, repovars, vervars, sortvars, usevars, maskvars>>

(***************************************************************************)
(* compare_versions and entropy_compare_versions (libraries/entropy/dep.py) *)
(* A version string is a sequence of tokens: a digit, ".", a letter, one   *)
(* of the suffix keywords with its underscore, "-r", or "*", which no      *)
(* version has.  A number the code computes is a fraction [n, d]: an int   *)
(* has d = 1, float("0." + digits) has d = 10 ^ Len(digits).               *)
(***************************************************************************)
Digits == {"0", "1", "2", "3"}
Letters == {"a"}
SuffixKeys == {"_alpha", "_beta", "_pre", "_rc", "_p"}

\* suffix_value
suffix_value(kind) ==
    CASE kind = "_pre" -> 0 - 2
      [] kind = "_p" -> 0
      [] kind = "_alpha" -> 0 - 4
      [] kind = "_beta" -> 0 - 3
      [] kind = "_rc" -> 0 - 1

DigitValue(c) ==
    CASE c = "0" -> 0 [] c = "1" -> 1 [] c = "2" -> 2 [] c = "3" -> 3

\* int(digits), and 0 where the code falls back on it for ''
RECURSIVE IntOf(_)
IntOf(ds) ==
    IF ds = <<>> THEN 0
    ELSE 10 * IntOf(SubSeq(ds, 1, Len(ds) - 1)) + DigitValue(ds[Len(ds)])

RECURSIVE Pow10(_)
Pow10(n) == IF n = 0 THEN 1 ELSE 10 * Pow10(n - 1)

IntNum(n) == [n |-> n, d |-> 1]

\* float("0." + digits)
FloatNum(ds) == [n |-> IntOf(ds), d |-> Pow10(Len(ds))]

\* x != y and x - y for two numbers
NumDiffer(x, y) == x.n * y.d # y.n * x.d

NumSub(x, y) == [n |-> x.n * y.d - y.n * x.d, d |-> x.d * y.d]

\* the length of the longest run of digits that s starts with: \d*
RECURSIVE DigitRun(_)
DigitRun(s) ==
    IF s # <<>> /\ Head(s) \in Digits THEN 1 + DigitRun(Tail(s)) ELSE 0

Drop(s, n) == SubSeq(s, n + 1, Len(s))

\* ((\.\d+)*): the digit runs, and what is left of s
RECURSIVE MatchSegments(_, _)
MatchSegments(s, segs) ==
    IF s # <<>> /\ Head(s) = "." /\ DigitRun(Tail(s)) > 0
    THEN MatchSegments(Drop(s, 1 + DigitRun(Tail(s))),
                       Append(segs, SubSeq(s, 2, 1 + DigitRun(Tail(s)))))
    ELSE [segs |-> segs, rest |-> s]

\* ((_(pre|p|beta|alpha|rc)\d*)*): the (keyword, digits) pairs, and the rest
RECURSIVE MatchSuffixes(_, _)
MatchSuffixes(s, sufs) ==
    IF s # <<>> /\ Head(s) \in SuffixKeys
    THEN MatchSuffixes(Drop(s, 1 + DigitRun(Tail(s))),
                       Append(sufs, <<Head(s),
                                      SubSeq(s, 2, 1 + DigitRun(Tail(s)))>>))
    ELSE [sufs |-> sufs, rest |-> s]

NoMatch == [matched |-> FALSE]

\* ver_regexp.match(ver): groups 2, 3, 5, 6 and 10
VerMatch(ver) ==
    LET n2 == DigitRun(ver)
        g3 == MatchSegments(Drop(ver, n2), <<>>)
        has5 == g3.rest # <<>> /\ Head(g3.rest) \in Letters
        after5 == IF has5 THEN Tail(g3.rest) ELSE g3.rest
        g6 == MatchSuffixes(after5, <<>>)
        has10 == /\ g6.rest # <<>>
                 /\ Head(g6.rest) = "-r"
                 /\ DigitRun(Tail(g6.rest)) > 0
        after10 == IF has10 THEN Drop(g6.rest, 1 + DigitRun(Tail(g6.rest)))
                   ELSE g6.rest
    IN  IF n2 = 0 \/ after10 # <<>> THEN NoMatch
        ELSE [matched |-> TRUE,
              major |-> SubSeq(ver, 1, n2),
              segs |-> g3.segs,
              letter |-> IF has5 THEN <<Head(g3.rest)>> ELSE <<>>,
              sufs |-> g6.sufs,
              rev |-> IF has10
                      THEN SubSeq(g6.rest, 2, 1 + DigitRun(Tail(g6.rest)))
                      ELSE <<>>]

\* match.group(3)[1:].split(".")
VList(m) == IF m.segs = <<>> THEN << <<>> >> ELSE m.segs

Max(a, b) == IF a >= b THEN a ELSE b

\* lines 525-542: the members of list1 and list2 for the place i
SegmentPair(vlist1, vlist2, i) ==
    IF Len(vlist1) < i \/ Len(vlist1[i]) = 0
    THEN <<IntNum(0 - 1), IntNum(IntOf(vlist2[i]))>>
    ELSE IF Len(vlist2) < i \/ Len(vlist2[i]) = 0
    THEN <<IntNum(IntOf(vlist1[i])), IntNum(0 - 1)>>
    ELSE IF vlist1[i][1] # "0" /\ vlist2[i][1] # "0"
    THEN <<IntNum(IntOf(vlist1[i])), IntNum(IntOf(vlist2[i]))>>
    ELSE <<FloatNum(vlist1[i]), FloatNum(vlist2[i])>>

\* ord() of the final letter
Ord(letter) == IF letter = "a" THEN 97 ELSE 98

\* lines 518-548: list1 (side = 1) or list2 (side = 2)
VersionList(m1, m2, side) ==
    LET mine == IF side = 1 THEN m1 ELSE m2
        n == IF m1.segs # <<>> \/ m2.segs # <<>>
             THEN Max(Len(VList(m1)), Len(VList(m2))) ELSE 0
        segs == [i \in 1..n |-> SegmentPair(VList(m1), VList(m2), i)[side]]
        letter == IF mine.letter = <<>> THEN <<>>
                  ELSE <<IntNum(Ord(mine.letter[1]))>>
    IN  <<IntNum(IntOf(mine.major))>> \o segs \o letter

\* lines 550-556: the value returned at the first place that decides, or
\* Undecided
RECURSIVE CompareLists(_, _, _)
\* a comparison of the lists that lets the shorter list win
CompareListsShorterWins(list1, list2, i) ==
    IF i > Max(Len(list1), Len(list2)) THEN Undecided
    ELSE IF Len(list1) < i THEN IntNum(1)
    ELSE IF Len(list2) < i THEN IntNum(1)
    ELSE IF NumDiffer(list1[i], list2[i]) THEN NumSub(list1[i], list2[i])
    ELSE CompareLists(list1, list2, i + 1)

CompareLists(list1, list2, i) ==
    IF i > Max(Len(list1), Len(list2)) THEN Undecided
    ELSE IF Len(list1) < i THEN IntNum(0 - 1)
    ELSE IF Len(list2) < i THEN IntNum(1)
    ELSE IF NumDiffer(list1[i], list2[i]) THEN NumSub(list1[i], list2[i])
    ELSE CompareLists(list1, list2, i + 1)

\* lines 562-584: the same for the suffixes
RECURSIVE CompareSuffixes(_, _, _)
CompareSuffixes(list1, list2, i) ==
    IF i > Max(Len(list1), Len(list2)) THEN Undecided
    ELSE LET s1 == IF Len(list1) < i THEN <<"_p", <<"0">>>> ELSE list1[i]
             s2 == IF Len(list2) < i THEN <<"_p", <<"0">>>> ELSE list2[i]
         IN  IF s1[1] # s2[1]
             THEN IntNum(suffix_value(s1[1]) - suffix_value(s2[1]))
             ELSE IF s1[2] # s2[2]
             THEN IntNum(IntOf(s1[2]) - IntOf(s2[2]))
             ELSE CompareSuffixes(list1, list2, i + 1)

\* compare_versions
compare_versions(ver1, ver2) ==
    LET match1 == IF ver1 # <<>> THEN VerMatch(ver1) ELSE NoMatch
        match2 == IF ver2 # <<>> THEN VerMatch(ver2) ELSE NoMatch
        main == CompareLists(VersionList(match1, match2, 1),
                             VersionList(match1, match2, 2), 1)
        suffix == CompareSuffixes(match1.sufs, match2.sufs, 1)
    IN  IF ver1 = ver2 THEN IntNum(0)
        ELSE IF ~match1.matched THEN IntNum(0)
        ELSE IF ~match2.matched THEN IntNum(1)
        ELSE IF main # Undecided THEN main
        ELSE IF suffix # Undecided THEN suffix
        ELSE IntNum(IntOf(match1.rev) - IntOf(match2.rev))

\* const_cmp on two tags: cmp() of two strings, character by character
CharCode(c) == IF c = "k" THEN 107 ELSE 115

RECURSIVE const_cmp(_, _)
const_cmp(a, b) ==
    IF a = <<>> /\ b = <<>> THEN 0
    ELSE IF a = <<>> THEN 0 - 1
    ELSE IF b = <<>> THEN 1
    ELSE IF CharCode(Head(a)) < CharCode(Head(b)) THEN 0 - 1
    ELSE IF CharCode(Head(a)) > CharCode(Head(b)) THEN 1
    ELSE const_cmp(Tail(a), Tail(b))

\* entropy_compare_package_tags
entropy_compare_package_tags(tag_a, tag_b) == const_cmp(tag_a, tag_b)

\* entropy_compare_versions; an absent tag is the empty string
entropy_compare_versions(ver_data1, ver_data2) ==
    LET tagged == IF ver_data1.tag # <<>> /\ ver_data2.tag # <<>>
                  THEN IntNum(const_cmp(ver_data1.tag, ver_data2.tag))
                  ELSE IntNum(0)
        rc == IF tagged.n = 0
              THEN compare_versions(ver_data1.ver, ver_data2.ver)
              ELSE tagged
        tag_cmp == entropy_compare_package_tags(ver_data1.tag, ver_data2.tag)
    IN  IF rc.n = 0
        THEN IF tag_cmp < 0 THEN IntNum(0 - 1)
             ELSE IF tag_cmp > 0 THEN IntNum(1)
             ELSE IF ver_data1.rev > ver_data2.rev THEN IntNum(1)
             ELSE IF ver_data1.rev < ver_data2.rev THEN IntNum(0 - 1)
             ELSE IntNum(0)
        ELSE rc

\* the version strings the comparisons are made on
Numbers ==
    {<<"1">>, <<"3">>, <<"1", ".", "2">>, <<"1", ".", "0", "2">>,
     <<"1", ".", "1", "0">>}

SuffixParts ==
    {<<>>, <<"_alpha">>, <<"_beta">>, <<"_pre">>, <<"_rc">>, <<"_p">>,
     <<"_rc", "0">>, <<"_rc", "1">>}

RevisionParts == {<<>>, <<"-r", "1">>, <<"-r", "2">>}

\* the valid version strings with the numeric part num
ValidVersions(num) ==
    {num \o letter \o suffix \o rev :
        letter \in {<<>>, <<"a">>}, suffix \in SuffixParts,
        rev \in RevisionParts}

\* strings that ver_regexp does not match
InvalidVersions == {<<>>, <<"*">>, <<"a">>, <<"1", ".">>, <<"1", "_p", "*">>}

VersionsOn(num) == IF num = <<>> THEN InvalidVersions ELSE ValidVersions(num)

\* the third version of a transitivity test
ThirdVersions ==
    {<<"1">>, <<"1", "-r", "1">>, <<"1", "_p">>, <<"1", ".", "0", "2">>}

Tags == {<<>>, <<"k">>, <<"s">>}

\* the (version, tag, revision) triples entropy_compare_versions is tried on
EntropyVersions ==
    [ver : {<<"1">>, <<"3">>, <<"1", "_p">>}, tag : Tags, rev : 0..1]

VerInit ==
    /\ LockInit
    /\ NoMasking
    /\ NoUseDependency
    /\ NoSorting
    /\ NoParser
    /\ NoRepositories
    /\ \E num1 \in Numbers \cup {<<>>}, num2 \in Numbers \cup {<<>>} :
          \E v1 \in VersionsOn(num1), v2 \in VersionsOn(num2),
             v3 \in ThirdVersions :
                ver_data = <<Untagged(v1), Untagged(v2), Untagged(v3)>>
    /\ ver_result = NoVerResult

EntropyVerInit ==
    /\ LockInit
    /\ NoMasking
    /\ NoUseDependency
    /\ NoSorting
    /\ NoParser
    /\ NoRepositories
    /\ ver_data \in EntropyVersions \X EntropyVersions \X EntropyVersions
    /\ ver_result = NoVerResult

\* compare_versions is called on the versions, two by two
CompareVersions ==
    /\ ver_result = NoVerResult
    /\ ver_result' =
          [op |-> "compare_versions",
           ab |-> compare_versions(ver_data[1].ver, ver_data[2].ver),
           ba |-> compare_versions(ver_data[2].ver, ver_data[1].ver),
           bc |-> compare_versions(ver_data[2].ver, ver_data[3].ver),
           ac |-> compare_versions(ver_data[1].ver, ver_data[3].ver)]
    /\ UNCHANGED ver_data
    /\ UNCHANGED <<lockvars, depvars, repovars, sortvars, usevars, maskvars>>

\* entropy_compare_versions is called on the triples, two by two
EntropyCompareVersions ==
    /\ ver_result = NoVerResult
    /\ ver_result' =
          [op |-> "entropy_compare_versions",
           ab |-> entropy_compare_versions(ver_data[1], ver_data[2]),
           ba |-> entropy_compare_versions(ver_data[2], ver_data[1]),
           bc |-> entropy_compare_versions(ver_data[2], ver_data[3]),
           ac |-> entropy_compare_versions(ver_data[1], ver_data[3])]
    /\ UNCHANGED ver_data
    /\ UNCHANGED <<lockvars, depvars, repovars, sortvars, usevars, maskvars>>

(***************************************************************************)
(* dep_getusedeps.  Every InvalidAtom(...) of the function is an           *)
(* expression statement: the exception object is built and dropped, there  *)
(* is no raise, and the loop goes on.  built lists the objects built.      *)
(***************************************************************************)
MaxUseLen == 5       \* longest atom given to dep_getusedeps

UseChars == {"f", "[", "]", ","}

\* use.split(",")
RECURSIVE SplitComma(_, _, _)
SplitComma(use, i, cur) ==
    IF i > Len(use) THEN <<cur>>
    ELSE IF use[i] = "," THEN <<cur>> \o SplitComma(use, i + 1, <<>>)
    ELSE SplitComma(use, i + 1, Append(cur, use[i]))

\* for x in use.split(","): the flags appended, the exceptions built
RECURSIVE UseFlags(_, _)
UseFlags(parts, st) ==
    IF parts = <<>> THEN st
    ELSE IF Head(parts) # <<>>
    THEN UseFlags(Tail(parts),
                  [st EXCEPT !.use_list = Append(@, Head(parts))])
    ELSE UseFlags(Tail(parts),
                  [st EXCEPT !.built = Append(@, "no use flag next to comma")])

\* s with msg appended to the exceptions built when cond holds
Built(st, cond, msg) ==
    IF cond THEN [st EXCEPT !.built = Append(@, msg)] ELSE st

\* the while loop of dep_getusedeps; open_bracket is what find returned
RECURSIVE UseLoop(_, _, _)
UseLoop(atom, open_bracket, st) ==
    IF open_bracket = -1 THEN st
    ELSE LET bracket_count == st.bracket_count + 1
             close_bracket == Find(atom, "]", open_bracket + 1)
             use == Slice(atom, open_bracket + 1, close_bracket)
             comma_separated ==
                 IF ~st.comma_separated
                 THEN \E i \in 1..Len(use) : use[i] = ","
                 ELSE st.comma_separated
             s1 == Built(st, bracket_count > 1, "more than one set of brackets")
             s2 == Built(s1, close_bracket = -1, "no closing bracket")
             s3 == Built(s2, use = <<>>, "no use flag ([])")
             s4 == Built(s3, comma_separated /\ bracket_count > 1,
                         "mixture of comma and bracket separators")
             s5 == IF comma_separated
                   THEN UseFlags(SplitComma(use, 1, <<>>), s4)
                   ELSE [s4 EXCEPT !.use_list = Append(@, use)]
         IN  UseLoop(atom, Find(atom, "[", open_bracket + 2),
                     [s5 EXCEPT !.bracket_count = bracket_count,
                                !.comma_separated = comma_separated])

\* dep_getusedeps(depend): no statement of it raises
dep_getusedeps(atom) ==
    LET st == UseLoop(atom, Find(atom, "[", 1),
                      [use_list |-> <<>>, comma_separated |-> FALSE,
                       bracket_count |-> 0, built |-> <<>>])
    IN  [op |-> "dep_getusedeps", raised |-> FALSE, built |-> st.built,
         ret |-> st.use_list]

\* the atoms of up to len characters
UseAtoms(len) == UNION {[1..n -> UseChars] : n \in 0..len}

UseInit ==
    /\ LockInit
    /\ NoMasking
    /\ NoParser
    /\ NoRepositories
    /\ NoVersions
    /\ NoSorting
    /\ depend \in UseAtoms(MaxUseLen)
    /\ usedeps = NoUseDeps

\* dep_getusedeps is called on the atom
DepGetUseDeps ==
    /\ usedeps = NoUseDeps
    /\ usedeps' = dep_getusedeps(depend)
    /\ UNCHANGED depend
    /\ UNCHANGED <<lockvars, depvars, repovars, vervars, sortvars, maskvars>>

(***************************************************************************)
(* _generic_sorter, get_newer_version and get_entropy_newer_version.       *)
(***************************************************************************)
MaxSorted == 3

\* cmp_func of the two callers
cmp_func(op, a, b) ==
    IF op = "get_newer_version" THEN compare_versions(a, b)
    ELSE entropy_compare_versions(a, b)

\* inputs[idx] and inputs[second_idx] exchanged
Swapped(list, idx) ==
    [list EXCEPT ![idx] = list[idx + 1], ![idx + 1] = list[idx]]

\* one run of the for loop, from idx on; idx counts from 1
RECURSIVE ForLoop(_, _, _, _)
ForLoop(op, list, idx, changed) ==
    IF idx > Len(list) THEN [inputs |-> list, changed |-> changed]
    ELSE IF idx + 1 > Len(list) THEN ForLoop(op, list, idx + 1, changed)
    ELSE IF cmp_func(op, list[idx], list[idx + 1]).n < 0
         THEN ForLoop(op, Swapped(list, idx), idx + 1, TRUE)
         ELSE ForLoop(op, list, idx + 1, changed)

\* the versions that are sorted
SortVersions ==
    {<<"1">>, <<"1", "_p">>, <<"1", "-r", "1">>, <<"3">>}

SortedData == [ver : SortVersions, tag : Tags, rev : {0}]

SortInit ==
    /\ LockInit
    /\ NoMasking
    /\ NoUseDependency
    /\ NoSorting
    /\ NoParser
    /\ NoRepositories
    /\ ver_data \in SortedData \X SortedData \X SortedData
    /\ ver_result = NoVerResult

\* _generic_sorter is entered: the copy is made, a short list is returned
GenericSorter(op, inputlist) ==
    /\ sorter.pc = "idle"
    /\ inputs' = inputlist
    /\ sorter' = [op |-> op, inputlist |-> inputlist,
                  pc |-> IF Len(inputlist) < 2 THEN "returned" ELSE "while",
                  passes |-> 0]
    /\ UNCHANGED <<lockvars, depvars, repovars, vervars, usevars, maskvars>>

\* get_newer_version on the first len versions
GetNewerVersion ==
    \E len \in 0..MaxSorted :
        GenericSorter("get_newer_version",
                      [i \in 1..len |-> ver_data[i].ver])

\* get_entropy_newer_version on the first len (version, tag, revision)
GetEntropyNewerVersion ==
    \E len \in 0..MaxSorted :
        GenericSorter("get_entropy_newer_version",
                      [i \in 1..len |-> ver_data[i]])

\* one turn of the while loop: the for loop, then break unless changed
SorterPass ==
    /\ sorter.pc = "while"
    /\ \E r \in {ForLoop(sorter.op, inputs, 1, FALSE)} :
          /\ inputs' = r.inputs
          /\ sorter' = [sorter EXCEPT
                           !.pc = IF r.changed THEN "while" ELSE "returned",
                           !.passes = @ + 1]
    /\ UNCHANGED <<lockvars, depvars, repovars, vervars, usevars, maskvars>>

(***************************************************************************)
(* MatchMixin: mask_package, unmask_package and what they call.  One       *)
(* repository holds two packages of the same key and slot, a-1 and a-2.    *)
(* A record of a mask or unmask file is the atom of a package or its       *)
(* key:slot.  The repository handle (maskFilter, retrieveAtom,             *)
(* retrieveKeySlot), atom_match and SystemSettings are not part of the     *)
(* client interface: they are what the specification says of them.         *)
(***************************************************************************)
MaxLines == 2        \* most lines a mask or unmask file grows to

PackageMatches == {<<1, "repoA">>, <<2, "repoA">>}

MaskMethods == {"atom", "keyslot"}

\* setting_data['mask'], setting_data['unmask'] and one file of each of
\* setting_dirs['mask_d'] and setting_dirs['unmask_d']
MaskSources == {"mask", "unmask", "mask_d", "unmask_d"}

\* dbconn.retrieveAtom(m_id)
retrieveAtom(package_match) == IF package_match[1] = 1 THEN "a-1" ELSE "a-2"

\* key + etpConst['entropyslotprefix'] + slot of dbconn.retrieveKeySlot
retrieveKeySlot(package_match) == "a:0"

\* the packages a record applies to: an exact atom to its package, a
\* key:slot to every package of that key and slot
Covers(keyword, package_match) ==
    keyword = "a:0" \/ keyword = retrieveAtom(package_match)

\* atom_match(keyword, mask_filter = False): the best package the keyword
\* resolves to, for a key:slot the newest one
atom_match(keyword) ==
    IF keyword = "a-1" THEN <<1, "repoA">> ELSE <<2, "repoA">>

\* what SystemSettings reads from the files when it is cleared
ParseMasking(files) ==
    [mask |-> Range(files["mask"].lines) \cup Range(files["mask_d"].lines),
     unmask |-> Range(files["unmask"].lines)
                   \cup Range(files["unmask_d"].lines)]

\* the state mask_package and unmask_package work on
MaskState ==
    [files |-> setting_files, masking |-> masking,
     live |-> live_packagemasking]

\* dbconn.maskFilter(m_id, live = live_check) gave idpackage = -1
MaskFiltered(s, package_match, live_check) ==
    LET user_mask == \E k \in s.masking.mask : Covers(k, package_match)
        user_unmask == \E k \in s.masking.unmask : Covers(k, package_match)
    IN  IF live_check /\ package_match \in s.live.mask_matches THEN TRUE
        ELSE IF live_check /\ package_match \in s.live.unmask_matches
        THEN FALSE
        ELSE IF mask_first THEN user_mask
        ELSE user_mask /\ ~user_unmask

is_package_masked(s, package_match, live_check) ==
    MaskFiltered(s, package_match, live_check)

\* self._settings.clear(): the files are read again; the live layer is
\* emptied unless it is one of the settings that outlive a clear()
MaskSettingsClear(s) ==
    [s EXCEPT !.masking = ParseMasking(s.files),
              !.live = IF live_persistent THEN @ ELSE NoLiveMasking]

\* os.path.isfile(x) and os.access(x, os.W_OK)
IsWritableFile(file) == file.status = "writable"

\* the lines of a file that _clear_match_generic writes to the new file
KeptLines(lines, match) ==
    SelectSeq(lines, LAMBDA line : atom_match(line) # match)

\* _clear_match_generic with the masking_list of _clear_package_mask
ClearMatchGenericAlways(s, match, dry_run) ==
    [s EXCEPT
       !.live = [mask_matches |-> @.mask_matches \ {match},
                 unmask_matches |-> @.unmask_matches \ {match}],
       !.files = [src \in MaskSources |->
                    IF IsWritableFile(s.files[src])
                    THEN [s.files[src] EXCEPT
                            !.lines = KeptLines(@, match)]
                    ELSE s.files[src]]]

ClearMatchGeneric(s, match, dry_run) ==
    IF dry_run THEN s
    ELSE [s EXCEPT
            !.live = [mask_matches |-> @.mask_matches \ {match},
                      unmask_matches |-> @.unmask_matches \ {match}],
            !.files = [src \in MaskSources |->
                         IF IsWritableFile(s.files[src])
                         THEN [s.files[src] EXCEPT
                                 !.lines = KeptLines(@, match)]
                         ELSE s.files[src]]]

ClearPackageMask(s, package_match, dry_run) ==
    ClearMatchGeneric(s, package_match, dry_run)

\* _mask_unmask_package_generic: the state and what it returns.  A file
\* that is missing is in a directory that can be written to.
MaskUnmaskPackageGeneric(s, keyword, m_file, dry_run) ==
    IF s.files[m_file].status = "readonly" THEN [s |-> s, ret |-> FALSE]
    ELSE IF dry_run THEN [s |-> s, ret |-> TRUE]
    ELSE [s |-> [s EXCEPT !.files[m_file] =
                    [status |-> "writable",
                     lines |-> Append(s.files[m_file].lines, keyword)]],
          ret |-> TRUE]

mask_package_generic(s, package_match, keyword, dry_run) ==
    MaskUnmaskPackageGeneric(ClearPackageMask(s, package_match, dry_run),
                             keyword, "mask", dry_run)

unmask_package_generic(s, package_match, keyword, dry_run) ==
    MaskUnmaskPackageGeneric(ClearPackageMask(s, package_match, dry_run),
                             keyword, "unmask", dry_run)

\* the keyword that the method of methods_reference masks or unmasks by
MethodKeyword(package_match, method) ==
    IF method = "atom" THEN retrieveAtom(package_match)
    ELSE retrieveKeySlot(package_match)

\* _mask_unmask_package, f being the mask or the unmask method
MaskUnmaskPackage(s, package_match, method, masks, dry_run) ==
    LET done == IF masks
                THEN mask_package_generic(s, package_match,
                         MethodKeyword(package_match, method), dry_run)
                ELSE unmask_package_generic(s, package_match,
                         MethodKeyword(package_match, method), dry_run)
    IN  IF done.ret /\ ~dry_run
        THEN [s |-> MaskSettingsClear(done.s), ret |-> TRUE]
        ELSE done

\* mask_package
MaskPackageLive(s, package_match, method, dry_run) ==
    IF is_package_masked(s, package_match, FALSE)
    THEN [s |-> s, ret |-> TRUE]
    ELSE LET rc == MaskUnmaskPackage(s, package_match, method, TRUE, dry_run)
         IN  [s |-> IF dry_run
                    THEN [rc.s EXCEPT
                            !.live.mask_matches = @ \cup {package_match}]
                    ELSE rc.s,
              ret |-> rc.ret]

MaskPackage(s, package_match, method, dry_run) ==
    IF is_package_masked(s, package_match, FALSE)
    THEN [s |-> s, ret |-> TRUE]
    ELSE LET rc == MaskUnmaskPackage(s, package_match, method, TRUE, dry_run)
         IN  [s |-> IF dry_run
                    THEN [rc.s EXCEPT
                            !.live.unmask_matches = @ \ {package_match},
                            !.live.mask_matches = @ \cup {package_match}]
                    ELSE rc.s,
              ret |-> rc.ret]

\* unmask_package
UnmaskPackage(s, package_match, method, dry_run) ==
    IF ~is_package_masked(s, package_match, FALSE)
    THEN [s |-> s, ret |-> TRUE]
    ELSE LET rc == MaskUnmaskPackage(s, package_match, method, FALSE, dry_run)
         IN  [s |-> IF dry_run
                    THEN [rc.s EXCEPT
                            !.live.unmask_matches = @ \cup {package_match},
                            !.live.mask_matches = @ \ {package_match}]
                    ELSE rc.s,
              ret |-> rc.ret]

\* what a mask or unmask file is like when the client starts
FileStates(src) ==
    IF src \in {"mask", "unmask"}
    THEN {[status |-> "missing", lines |-> <<>>],
          [status |-> "writable", lines |-> <<>>],
          [status |-> "readonly", lines |-> <<>>]}
    ELSE IF src = "mask_d"
    THEN {[status |-> "missing", lines |-> <<>>],
          [status |-> "writable", lines |-> <<"a-2">>]}
    ELSE {[status |-> "missing", lines |-> <<>>],
          [status |-> "writable", lines |-> <<"a-1">>],
          [status |-> "readonly", lines |-> <<"a-1">>]}

MaskInit ==
    /\ LockInit
    /\ NoParser
    /\ NoRepositories
    /\ NoVersions
    /\ NoSorting
    /\ NoUseDependency
    /\ setting_files \in [MaskSources -> UNION {FileStates(src) :
                                                  src \in MaskSources}]
    /\ \A src \in MaskSources : setting_files[src] \in FileStates(src)
    /\ masking = ParseMasking(setting_files)
    /\ live_packagemasking = NoLiveMasking
    /\ mask_first \in BOOLEAN
    /\ live_persistent \in BOOLEAN
    /\ mask_call = NoMaskCall

\* the call returned res
MaskReturn(op, package_match, method, dry_run, res) ==
    \E r \in {res} :
        /\ \A src \in MaskSources : Len(r.s.files[src].lines) <= MaxLines
        /\ setting_files' = r.s.files
        /\ masking' = r.s.masking
        /\ live_packagemasking' = r.s.live
        /\ mask_call' = [op |-> op, package_match |-> package_match,
                         method |-> method, dry_run |-> dry_run,
                         masked |->
                             is_package_masked(MaskState, package_match, TRUE),
                         ret |-> IF r.ret THEN "True" ELSE "False"]
        /\ UNCHANGED <<mask_first, live_persistent>>
        /\ UNCHANGED <<lockvars, depvars, repovars, vervars, sortvars,
                       usevars>>

Mask ==
    \E package_match \in PackageMatches, method \in MaskMethods,
       dry_run \in BOOLEAN :
        MaskReturn("mask_package", package_match, method, dry_run,
                   MaskPackage(MaskState, package_match, method, dry_run))

Unmask ==
    \E package_match \in PackageMatches, method \in MaskMethods,
       dry_run \in BOOLEAN :
        MaskReturn("unmask_package", package_match, method, dry_run,
                   UnmaskPackage(MaskState, package_match, method, dry_run))

vars == <<lockvars, depvars, repovars, vervars, sortvars, usevars, maskvars>>

LockNext ==
    \E p \in Procs :
        \/ \E blocking \in BOOLEAN, shared \in BOOLEAN, openok \in BOOLEAN :
              LockResources(p, blocking, shared, openok)
        \/ FlockGranted(p)
        \/ \E blocking \in BOOLEAN : PromoteResources(p, blocking)
        \/ PromoteGranted(p)
        \/ UnlockResources(p)
        \/ \E m \in 0..MaxLockCount, shared \in BOOLEAN :
              WaitResources(p, m, shared)
        \/ \E openok \in BOOLEAN : WaitPoll(p, openok)
        \/ Execv(p)

CacheNext ==
    \/ LockNext
    \/ \E p \in Procs : FillCache(p)

Init == LockInit /\ NoParser /\ NoRepositories /\ NoVersions /\ NoSorting /\ NoUseDependency /\ NoMasking

Next == LockNext

\* the lock manager run by the processes of Procs
Spec == Init /\ [][Next]_vars

\* the lock manager, with clients that fill their in-RAM caches
CacheSpec == Init /\ [][CacheNext]_vars

\* the lock manager with processes that keep running: a sleeping
\* _wait_resource loop wakes up and polls again, a granted flock returns
Fairness ==
    \A p \in Procs :
        /\ WF_vars(\E openok \in BOOLEAN : WaitPoll(p, openok))
        /\ WF_vars(FlockGranted(p))
        /\ WF_vars(PromoteGranted(p))

FairSpec == Spec /\ Fairness

DepNext == Parse

\* one parser object per dependency string and repository, parsed once
DepSpec == DepInit /\ [][DepNext]_vars

\* add_repository with the metadata of a persistent repository whose id
\* is not a valid one
AddInvalid ==
    /\ Return("add", InvalidId,
              AddRepository(Called(RepoState), InvalidId, FALSE))
    /\ UNCHANGED <<lockvars, depvars, vervars, sortvars, usevars, maskvars>>

RepoNext ==
    \/ Add
    \/ Remove
    \/ Shift
    \/ Enable
    \/ Disable
    \/ ValidateAll
    \/ CloseAll
    \/ Open
    \/ StorageChange

\* the repository stack alone: no lock is taken, no dependency is parsed
RepoSpec == Init /\ [][RepoNext]_vars

AddNext ==
    \/ Add
    \/ AddInvalid
    \/ Remove
    \/ Shift

\* the repository stack under add, remove and shift, with additions of a
\* persistent repository that has an invalid id
AddSpec == Init /\ [][AddNext]_vars

VerNext == CompareVersions

VerSpec == VerInit /\ [][VerNext]_vars

EntropyVerNext == EntropyCompareVersions

EntropyVerSpec == EntropyVerInit /\ [][EntropyVerNext]_vars

UseNext == DepGetUseDeps

\* one atom, its use dependencies extracted once
UseSpec == UseInit /\ [][UseNext]_vars

MaskNext ==
    \/ Mask
    \/ Unmask

\* mask and unmask calls on the two packages, in any order
MaskSpec == MaskInit /\ [][MaskNext]_vars

SortNext ==
    \/ GetNewerVersion
    \/ GetEntropyNewerVersion
    \/ SorterPass

\* lists of up to MaxSorted versions, sorted once
SortSpec == SortInit /\ [][SortNext]_vars

(***************************************************************************)
(* Properties of the resource lock manager.                                *)
(***************************************************************************)
LastIs(p, op, val) == last.p = p /\ last.op = op /\ last.val = val

Ref(p) == FILE_LOCK_MAP[p].ref

Count(p) == FILE_LOCK_MAP[p].count

\* C1: after two successful acquires of one process with no release in
\* between, the first release leaves the OS lock held and the lock file
\* present.
C1_FirstReleaseKeepsLock ==
    [][\A p \in Procs :
          (LastIs(p, "lock", "true") /\ last.how = "reentrant"
             /\ UnlockResources(p))
          => (Ref(p)' # NoRef /\ lockfile' # NoFile)]_vars

\* C2: whenever a process holds the lock in exclusive mode, no other process
\* holds the lock on the path, shared or exclusive.
C2_ExclusiveIsSole ==
    \A p \in Procs, q \in Procs :
        (p # q /\ Ref(p).mode = "ex") => Ref(q) = NoRef

\* C3: once a process has promoted its shared lock to exclusive, a
\* non-blocking exclusive acquire by another process returns false.
C3_PromotedExcludesAcquire ==
    [][\A p \in Procs, q \in Procs :
          (/\ p # q
           /\ LastIs(p, "promote", "true")
           /\ Ref(p).mode = "ex"
           /\ \E openok \in BOOLEAN : LockResources(q, FALSE, FALSE, openok))
          => LastIs(q, "lock", "false")']_vars

\* the OS refuses the flock of a non-blocking acquire of p, and the lock
\* file records the pid of p
RefusedWithOwnPid(p, shared) ==
    /\ pc[p] = "idle"
    /\ Ref(p) = NoRef
    /\ lockfile # NoFile
    /\ ~Grantable(<<p, "ref">>, lockfile, ModeOf(shared))
    /\ Strip(Read128(content[lockfile])) = Str(Getpid(p))

\* C4: a refused non-blocking acquire is granted through the recorded pid
\* only for an exclusive request; a refused shared request returns false
\* even when the recorded pid is the caller's.
C4_PidGrantOnlyExclusive ==
    [][\A p \in Procs, shared \in BOOLEAN :
          (RefusedWithOwnPid(p, shared)
             /\ LockResources(p, FALSE, shared, TRUE))
          => LastIs(p, "lock", BoolStr(~shared))']_vars

\* C5: whenever a process holds the exclusive lock, by an exclusive acquire
\* or by a promotion, the lock file of the path contains its pid.
C5_FileNamesExclusiveHolder ==
    \A p \in Procs :
        Ref(p).mode = "ex"
        => (lockfile # NoFile /\ Strip(content[lockfile]) = Str(Getpid(p)))

\* both processes hold a shared lock on the same file and wait in a
\* blocking promote
PromoteStuck ==
    /\ \A p \in Procs : pc[p] = "promote" /\ Ref(p).mode = "sh"
    /\ \A p \in Procs, q \in Procs : Ref(p).ino = Ref(q).ino

\* C6: when two processes that hold a shared lock on the same file both
\* wait in a blocking promote, neither promote can return and nothing else
\* can happen: the state is a deadlock.
C6_PromoteDeadlock == PromoteStuck => ~ENABLED Next

C6_Witness == PromoteStuck

\* C7: a non-blocking promote by a shared holder, while another process
\* holds a lock on the path, returns false and leaves the caller's lock
\* record as it was.
C7_TryPromoteFailsUnderContention ==
    [][\A p \in Procs :
          (/\ Ref(p).mode = "sh"
           /\ \E q \in Procs : q # p /\ Ref(q) # NoRef
           /\ PromoteResources(p, FALSE))
          => (LastIs(p, "promote", "false")'
                /\ FILE_LOCK_MAP' = FILE_LOCK_MAP)]_vars

\* the outcome of a _wait_resource loop: polls that fail change nothing of
\* the lock record; it gives up with true only after max_lock_count failed
\* polls were followed by one more, holding nothing; it returns false only
\* on a poll that succeeded, holding the lock
WaitOutcome(p) ==
    /\ (wait[p].active /\ wait'[p].active)
          => (FILE_LOCK_MAP'[p] = FILE_LOCK_MAP[p]
                /\ wait'[p].lock_count <= wait'[p].max)
    /\ (wait[p].active /\ ~wait'[p].active)
          => /\ last'.p = p /\ last'.op = "wait"
             /\ last'.val = "true"
                  => /\ FILE_LOCK_MAP'[p] = FILE_LOCK_MAP[p]
                     /\ Ref(p) = NoRef
                     /\ wait[p].lock_count = wait[p].max
             /\ last'.val = "false" => Count(p)' > 0
             /\ last'.val \in {"true", "false"}

\* C8: _wait_resource terminates for every max_lock_count >= 0, whatever the
\* other processes do; it returns true exactly when no poll succeeded, the
\* lock record of the caller being unchanged and empty of a lock, and false
\* exactly when a poll succeeded, the caller then holding the lock.
C8_WaitTerminates ==
    /\ [][\A p \in Procs : WaitOutcome(p)]_vars
    /\ \A p \in Procs : wait[p].active ~> ~wait[p].active

C8_Witness ==
    \E p \in Procs, q \in Procs :
        /\ p # q
        /\ LastIs(p, "wait", "true")
        /\ Ref(p) = NoRef
        /\ Ref(q).mode = "ex"

\* C9 as stated: a release that brings the count to zero clears the in-RAM
\* caches, releases the OS lock and deletes the lock file; a release that
\* leaves the count above zero does none of these.
C9_ReleaseClearsCaches ==
    [][\A p \in Procs :
          UnlockResources(p)
          => /\ (Count(p) = 1 /\ Ref(p) # NoRef)
                   => (~cache'[p] /\ Ref(p)' = NoRef /\ lockfile' = NoFile)
             /\ Count(p) > 1
                   => (cache' = cache /\ Ref(p)' = Ref(p)
                         /\ lockfile' = lockfile)]_vars

\* C9 amended: a release never touches the in-RAM caches, which are cleared
\* when _file_lock_create obtains the OS lock; a release that brings the
\* count to zero while a lock handle is held releases the OS lock and
\* deletes the lock file; a release that leaves the count above zero does
\* none of these.
C9_ReleaseKeepsCaches ==
    [][\A p \in Procs :
          /\ UnlockResources(p)
                => /\ cache' = cache
                   /\ (Count(p) <= 1 /\ Ref(p) # NoRef)
                         => (Ref(p)' = NoRef /\ lockfile' = NoFile)
                   /\ Count(p) > 1
                         => (Ref(p)' = Ref(p) /\ lockfile' = lockfile)
          /\ (Ref(p) = NoRef /\ Ref(p)' # NoRef) => ~cache'[p]]_vars

C9_Witness ==
    \E p \in Procs :
        /\ LastIs(p, "unlock", "none")
        /\ last.how = "dropped"
        /\ cache[p]
        /\ lockfile = NoFile

(***************************************************************************)
(* Properties of the dependency string parser.                             *)
(***************************************************************************)
\* parse() has been called and has ended
Parsed == result.status # "not called"

\* parse() ended in the exception exc: it escaped, or parse caught it and
\* reported it to its caller as (False, [])
FailsWith(exc) ==
    \/ result.status = "raised" /\ result.exc = exc
    \/ result.caught = exc

NoBlanks(s) == SelectSeq(s, LAMBDA c : c # " ")

\* nesting depth after the first i characters of s
RECURSIVE Depth(_, _)
Depth(s, i) ==
    IF i = 0 THEN 0
    ELSE Depth(s, i - 1) + (IF s[i] = "(" THEN 1
                            ELSE IF s[i] = ")" THEN -1 ELSE 0)

Balanced(s) ==
    /\ Depth(s, Len(s)) = 0
    /\ \A i \in 1..Len(s) : Depth(s, i) >= 0

\* the grammar: expr := term (("&" | "|") term)*, term := atom | "(" expr ")"
IsAtom(s) == s # <<>> /\ \A i \in 1..Len(s) : s[i] \in Atoms

IsGroup(s) ==
    /\ Len(s) >= 2
    /\ s[1] = "(" /\ s[Len(s)] = ")"
    /\ \A i \in 1..(Len(s) - 1) : Depth(s, i) > 0

RECURSIVE IsExpr(_)
IsTerm(s) == IsAtom(s) \/ (IsGroup(s) /\ IsExpr(SubSeq(s, 2, Len(s) - 1)))

IsExpr(s) ==
    /\ Balanced(s)
    /\ LET ops == {i \in 1..Len(s) :
                      s[i] \in {LOGIC_AND, LOGIC_OR} /\ Depth(s, i) = 0}
           cuts == ops \cup {0, Len(s) + 1}
       IN  \A c \in cuts \ {Len(s) + 1} :
               LET nxt == CHOOSE n \in cuts :
                              n > c /\ \A m \in cuts : m > c => n <= m
               IN  IsTerm(SubSeq(s, c + 1, nxt - 1))

\* position of the "(" that opens the group the character after position j
\* lies in, 0 for the top level
RECURSIVE GroupOf(_, _, _)
GroupOf(s, j, closed) ==
    IF j = 0 THEN 0
    ELSE IF s[j] = ")" THEN GroupOf(s, j - 1, closed + 1)
    ELSE IF s[j] = "(" THEN (IF closed = 0 THEN j
                             ELSE GroupOf(s, j - 1, closed - 1))
    ELSE GroupOf(s, j - 1, closed)

\* "&" and "|" both occur at one nesting level of s
MixedLevel(s) ==
    \E i, j \in 1..Len(s) :
        /\ s[i] = LOGIC_AND /\ s[j] = LOGIC_OR
        /\ GroupOf(s, i - 1, 0) = GroupOf(s, j - 1, 0)

\* C10: parse of a well-formed expression in which "&" and "|" both occur
\* at one nesting level fails with MalformedDependency, at whatever depth
\* the mix occurs and whatever atoms the repository matches.
C10_MixedLevelFails ==
    (Parsed /\ IsExpr(NoBlanks(dep)) /\ MixedLevel(NoBlanks(dep)))
        => FailsWith("MalformedDependency")

\* the expression handed to the parser, blanks dropped
Expr == NoBlanks(dep)

\* positions of the operators of the top level of s
TopOps(s) ==
    {i \in 1..Len(s) : s[i] \in {LOGIC_AND, LOGIC_OR} /\ Depth(s, i) = 0}

\* the operators of the top level of s
TopKinds(s) == {s[i] : i \in TopOps(s)}

\* the members of the top level of s from position start on, left to right
RECURSIVE Members(_, _)
Members(s, start) ==
    LET later == {i \in TopOps(s) : i >= start}
    IN  IF later = {} THEN <<SubSeq(s, start, Len(s))>>
        ELSE LET n == CHOOSE i \in later : \A j \in later : i <= j
             IN  <<SubSeq(s, start, n - 1)>> \o Members(s, n + 1)

\* a well-formed expression with no level that mixes "&" and "|"
WellFormed(s) == IsExpr(s) /\ ~MixedLevel(s)

\* The value the grammar gives a well-formed expression: an atom succeeds
\* when the repository matches it and yields itself; a group is worth its
\* content; an AND-list succeeds when every member does and yields their
\* leaves in order; an OR-list yields the leaves of its leftmost
\* succeeding member; a failure yields no leaves.
RECURSIVE Expected(_)

RECURSIVE ExpectedAnd(_, _)
ExpectedAnd(members, i) ==
    IF i > Len(members) THEN [matched |-> TRUE, outcome |-> <<>>]
    ELSE LET m == Expected(members[i])
             rest == ExpectedAnd(members, i + 1)
         IN  IF m.matched /\ rest.matched
             THEN [matched |-> TRUE, outcome |-> m.outcome \o rest.outcome]
             ELSE [matched |-> FALSE, outcome |-> <<>>]

RECURSIVE ExpectedOr(_, _)
ExpectedOr(members, i) ==
    IF i > Len(members) THEN [matched |-> FALSE, outcome |-> <<>>]
    ELSE LET m == Expected(members[i])
         IN  IF m.matched THEN m ELSE ExpectedOr(members, i + 1)

Expected(s) ==
    IF IsAtom(s)
    THEN [matched |-> s \in repo,
          outcome |-> IF s \in repo THEN <<s>> ELSE <<>>]
    ELSE IF TopOps(s) = {} THEN Expected(SubSeq(s, 2, Len(s) - 1))
    ELSE IF TopKinds(s) = {LOGIC_AND} THEN ExpectedAnd(Members(s, 1), 1)
    ELSE ExpectedOr(Members(s, 1), 1)

\* parse() returned by its last line the pair r
ReturnedPair(r) ==
    /\ result.status = "returned"
    /\ result.caught = "none"
    /\ result.matched = r.matched
    /\ result.outcome = r.outcome

\* C11: for an AND-list, parse returns matched = true exactly when every
\* member succeeds, with the members' matched leaves concatenated left to
\* right (nested groups flattened in), and (false, []) when a member fails.
C11_AndList ==
    (Parsed /\ WellFormed(Expr) /\ TopKinds(Expr) = {LOGIC_AND})
        => ReturnedPair(Expected(Expr))

\* an AND-list with a nested group succeeded on three leaves
C11_Witness ==
    /\ Parsed /\ WellFormed(Expr) /\ TopKinds(Expr) = {LOGIC_AND}
    /\ \E i \in 1..Len(Expr) : Expr[i] = "("
    /\ result.matched /\ Len(result.outcome) >= 3

\* C12: for an OR-list, parse returns matched = true with exactly the
\* matched leaves of the leftmost succeeding member (an atom, or the leaves
\* of a nested group), and (false, []) when no member succeeds.
C12_OrList ==
    (Parsed /\ WellFormed(Expr) /\ TopKinds(Expr) = {LOGIC_OR})
        => ReturnedPair(Expected(Expr))

\* "(a&b)|b" with a not matched and b matched gave (true, ["b"])
C12_Witness ==
    /\ Parsed
    /\ dep = <<"(", "a", "&", "b", ")", "|", "b">>
    /\ repo = {<<"b">>}
    /\ result.matched /\ result.outcome = <<<<"b">>>>

\* The strings the leaf predicate is to be applied to, in order: the leaves
\* from left to right, up to and including the first failing member of an
\* AND-list and the first succeeding member of an OR-list.
RECURSIVE ExpectedCalls(_)

RECURSIVE CallsAnd(_, _)
CallsAnd(members, i) ==
    IF i > Len(members) THEN <<>>
    ELSE ExpectedCalls(members[i])
         \o (IF Expected(members[i]).matched THEN CallsAnd(members, i + 1)
             ELSE <<>>)

RECURSIVE CallsOr(_, _)
CallsOr(members, i) ==
    IF i > Len(members) THEN <<>>
    ELSE ExpectedCalls(members[i])
         \o (IF Expected(members[i]).matched THEN <<>>
             ELSE CallsOr(members, i + 1))

ExpectedCalls(s) ==
    IF IsAtom(s) THEN <<s>>
    ELSE IF TopOps(s) = {} THEN ExpectedCalls(SubSeq(s, 2, Len(s) - 1))
    ELSE IF TopKinds(s) = {LOGIC_AND} THEN CallsAnd(Members(s, 1), 1)
    ELSE CallsOr(Members(s, 1), 1)

IsPrefix(s, t) == Len(s) <= Len(t) /\ s = SubSeq(t, 1, Len(s))

\* C13: the leaf predicate is invoked on leaves in left-to-right order and
\* never on a member to the right of the first failing member of an
\* AND-list or of the first succeeding member of an OR-list.
C13_CallOrder ==
    (Parsed /\ WellFormed(Expr))
        => /\ IsPrefix(result.calls, ExpectedCalls(Expr))
           /\ TopOps(Expr) # {} => result.calls = ExpectedCalls(Expr)

\* an OR-list with a nested group stopped before its last leaves
C13_Witness ==
    /\ Parsed /\ WellFormed(Expr) /\ TopKinds(Expr) = {LOGIC_OR}
    /\ \E i \in 1..Len(Expr) : Expr[i] = "("
    /\ Len(result.calls) >= 2
    /\ Len(result.calls) < Cardinality({i \in 1..Len(Expr) : Expr[i] \in Atoms})
    /\ \A i \in 1..Len(result.calls) : Len(result.calls[i]) = 1

\* parse() gave its caller the pair r
GavePair(res, r) ==
    /\ res.status = "returned"
    /\ res.matched = r.matched
    /\ res.outcome = r.outcome

\* C14: for an expression that is a single atom with no operator, parse
\* returns (true, [atom]) when the leaf predicate holds for the atom and
\* (false, []) when it does not.
C14_SingleAtom ==
    (Parsed /\ IsAtom(Expr)) => GavePair(result, Expected(Expr))

\* C15: for every well-formed expression e, parse of e wrapped in one more
\* pair of parentheses returns the same pair as parse of e, and raises
\* nothing.
C15_ExtraParentheses ==
    (Parsed /\ WellFormed(Expr))
        => /\ result.status = "returned"
           /\ GavePair(parse(<<"(">> \o dep \o <<")">>), result)

\* "()" occurs in s
EmptyGroup(s) ==
    \E i \in 1..(Len(s) - 1) : s[i] = "(" /\ s[i + 1] = ")"

\* C16: parse of an expression with unbalanced parentheses or with an
\* empty group "()" fails with MalformedDependency without the leaf
\* predicate being invoked on any string.
C16_UnbalancedOrEmpty ==
    (Parsed /\ (~Balanced(Expr) \/ EmptyGroup(Expr)))
        => /\ FailsWith("MalformedDependency")
           /\ result.calls = <<>>

(***************************************************************************)
(* Properties of the repository stack.                                     *)
(***************************************************************************)

\* C17: when the last three calls are add(id), remove(id) and open(id), for
\* a configured, a package file or a temporary repository id, the open
\* raised RepositoryError and gave no handle.
C17_RemovedCannotOpen ==
    last_call.stage = 3 => last_call.ret \in RepositoryErrors

\* add, remove and open of the temporary repository have been called in a
\* row, and the open failed
C17_Witness ==
    /\ last_call.stage = 3
    /\ IsTemporary(last_call.id)
    /\ last_call.ret \in RepositoryErrors

\* the same for the configured repository and for the package file
C17_WitnessPersistent ==
    /\ last_call.stage = 3
    /\ ~IsTemporary(last_call.id) /\ ~IsPackageRepository(last_call.id)
    /\ last_call.ret \in RepositoryErrors

C17_WitnessPackage ==
    /\ last_call.stage = 3
    /\ IsPackageRepository(last_call.id)
    /\ last_call.ret \in RepositoryErrors

\* a call of add, remove, shift, enable or disable returns in this step
MutatorReturns ==
    /\ storage' = storage
    /\ last_call'.op \in {"add", "remove", "shift", "enable", "disable"}
    /\ last_call'.ret # "ValueError"

\* the handle cached for id, if any, was made by the call that returned last
NoOldHandle(id) ==
    repodb_cache[id] = NoHandle \/ repodb_cache[id].fresh

\* the enabled list is the one _validate_repositories gives now
Revalidated == enabled_repos = ValidateRepositories(RepoState).enabled

\* C18: when add, remove, shift, enable or disable returns, no handle of the
\* affected id that was cached before the call is still cached, and the
\* enabled list is the list a full validation computes from the settings.
C18_EvictedAndRevalidated ==
    [][MutatorReturns => (NoOldHandle(last_call.id) /\ Revalidated)']_vars

\* the two halves of C18 on their own
C18_Evicted == [][MutatorReturns => NoOldHandle(last_call.id)']_vars

C18_Revalidated == [][MutatorReturns => Revalidated']_vars

\* open(id) returns or raises in this step, and no handle was cached for id
OpensUncached(id) ==
    /\ storage' = storage
    /\ last_call'.op = "open"
    /\ last_call'.id = id
    /\ repodb_cache[id] = NoHandle

\* id is a package file or temporary repository that add has registered
Registered(id) ==
    /\ id \in available
    /\ IsPackageRepository(id) \/ id \in temporary

\* C19: open(id) with no cached handle raises RepositoryError unless id is
\* in the enabled list or is a registered temporary or package file
\* repository: so for an unknown id, a disabled id and a configured id that
\* validation left out of the enabled list.
C19_OpenNeedsEnabled ==
    [][\A id \in RepoIds :
          (OpensUncached(id) /\ id \notin Range(enabled_repos)
                             /\ ~Registered(id))
              => last_call'.ret \in RepositoryErrors]_vars

\* the in-memory instance of id is taken out of _memory_db_instances in
\* this step
InstanceDropped(id) ==
    /\ memory_db_instances[id] # "none"
    /\ memory_db_instances'[id] = "none"

\* C20: whatever add, remove, shift, enable, disable, validateAll and
\* closeAll are called, the instance of a temporary repository is closed
\* and dropped only by a remove of its id; closeAll and validation leave it
\* registered.
C20_TemporaryDroppedOnlyByRemove ==
    [][\A id \in RepoIds :
          InstanceDropped(id)
              => (last_call'.op = "remove" /\ last_call'.id = id)]_vars

\* the part of C20 about closeAll
C20_CloseAllKeepsTemporary ==
    [][(storage' = storage /\ last_call'.op = "closeAll")
          => \A id \in RepoIds : ~InstanceDropped(id)]_vars

\* shift_repository(id, 0) is called in this step with id in the enabled
\* list, and returns
ShiftsToFront(id) ==
    /\ storage' = storage
    /\ last_call'.op = "shift"
    /\ last_call'.id = id
    /\ last_call'.idx = 0
    /\ last_call'.ret = "None"
    /\ id \in Range(enabled_repos)

\* the members of seq other than id that are in the set ids
Others(seq, id, ids) == SelectSeq(seq, LAMBDA x : x # id /\ x \in ids)

\* C21: after shift(id, 0) of an enabled id, id is the first of the enabled
\* list and the other enabled ids are in the relative order they were in.
C21_ShiftToFront ==
    [][\A id \in RepoIds :
          ShiftsToFront(id)
              => /\ enabled_repos' # <<>>
                 /\ Head(enabled_repos') = id
                 /\ Others(enabled_repos', id, RepoIds)
                        = Others(enabled_repos, id, RepoIds)]_vars

\* what holds of shift(id, 0): when id is still in the enabled list after
\* the validation that ends the call, it is its first element, and the
\* other ids that are enabled before and after the call are in the
\* relative order they were in
C21_ShiftToFrontIfValid ==
    [][\A id \in RepoIds :
          (ShiftsToFront(id) /\ id \in Range(enabled_repos'))
              => /\ Head(enabled_repos') = id
                 /\ Others(enabled_repos', id, Range(enabled_repos))
                        = Others(enabled_repos, id, Range(enabled_repos'))]_vars

\* shift(id, 0) returned and left id first of three enabled ids
C21_Witness ==
    /\ last_call.op = "shift"
    /\ last_call.idx = 0
    /\ last_call.ret = "None"
    /\ Len(enabled_repos) = 3
    /\ Head(enabled_repos) = last_call.id
    /\ enabled_repos = order

\* _validate_repositories returns in this step, called on its own
ValidateAllReturns ==
    /\ storage' = storage
    /\ last_call'.op = "validateAll"

\* id has a handle or can be given one, and its database is sound
OpensAndValidates(id) ==
    /\ \/ repodb_cache[id] # NoHandle
       \/ /\ id \in available
          /\ IF id \in temporary THEN memory_db_instances[id] # "none"
             ELSE storage[id] # "missing"
    /\ storage[id] # "corrupt"

\* C22: after validateAll the enabled list is the order sequence without
\* the ids that did not open and validate, whatever the enabled list was
\* before, and no handle is cached for an id of the order that failed.
C22_EnabledIsValidatedOrder ==
    [][ValidateAllReturns
          => /\ enabled_repos'
                    = SelectSeq(order, LAMBDA id : OpensAndValidates(id))
             /\ \A id \in Range(order) :
                    ~OpensAndValidates(id) => repodb_cache'[id] = NoHandle]_vars

\* validateAll returned; of three ids of the order one failed, and the
\* enabled list is not what it would be if it had been added to
C22_Witness ==
    /\ last_call.op = "validateAll"
    /\ Len(order) = 3
    /\ Len(enabled_repos) = 2
    /\ \E id \in Range(order) :
          id \notin Range(enabled_repos) /\ repodb_cache[id] = NoHandle

\* the warnings that the validateAll or open of this step puts out, by id
CallWarnings ==
    IF last_call'.op = "validateAll"
    THEN ValidateRepositories(Called(RepoState)).warned
    ELSE IF last_call'.op = "open"
    THEN OpenRepository(Called(RepoState), last_call'.id,
                        enabled_repos).s.warned
    ELSE NoWarning

\* C23: in the life of a process, whatever validateAll and open calls are
\* made, at most one warning is put out about one repository id that is
\* not available: a call puts out at most one, and none about an id a
\* warning was put out about before (the id is in the messages cache).
C23_OneWarningPerId ==
    [][storage' = storage
          => \A id \in RepoIds :
                /\ CallWarnings[id] <= 1
                /\ id \in repo_error_messages_cache => CallWarnings[id] = 0]_vars

\* the second half on its own: no warning about an id warned about before
C23_NoRepeatedWarning ==
    [][storage' = storage
          => \A id \in RepoIds :
                id \in repo_error_messages_cache => CallWarnings[id] = 0]_vars

(***************************************************************************)
(* Properties of the version comparisons.                                  *)
(***************************************************************************)
Compared == ver_result.op = "compare_versions"

Valid(ver) == ver # <<>> /\ VerMatch(ver).matched

Sign(x) == IF x.n > 0 THEN 1 ELSE IF x.n < 0 THEN 0 - 1 ELSE 0

SignOf(k) == IF k > 0 THEN 1 ELSE IF k < 0 THEN 0 - 1 ELSE 0

AllValid == \A i \in 1..3 : Valid(ver_data[i].ver)

\* C24: for valid versions a, b and c, compare_versions(a, b) <= 0 and
\* compare_versions(b, c) <= 0 give compare_versions(a, c) <= 0.
C24_Transitive ==
    (Compared /\ AllValid /\ ver_result.ab.n <= 0 /\ ver_result.bc.n <= 0)
        => ver_result.ac.n <= 0

\* C25: for valid versions a and b, compare_versions(a, b) and
\* compare_versions(b, a) are both zero or of opposite signs.
C25_Antisymmetric ==
    (Compared /\ Valid(ver_data[1].ver) /\ Valid(ver_data[2].ver))
        => Sign(ver_result.ab) = 0 - Sign(ver_result.ba)

\* two different valid versions were compared both ways and one is older
C25_Witness ==
    /\ Compared
    /\ Valid(ver_data[1].ver) /\ Valid(ver_data[2].ver)
    /\ Sign(ver_result.ab) = 0 - 1
    /\ Sign(ver_result.ba) = 1

\* C26: compare_versions of two invalid versions is 0; of a valid and an
\* invalid one it is positive, and negative the other way round.
C26_InvalidTolerated ==
    Compared
        => /\ (~Valid(ver_data[1].ver) /\ ~Valid(ver_data[2].ver))
                  => ver_result.ab.n = 0
           /\ (Valid(ver_data[1].ver) /\ ~Valid(ver_data[2].ver))
                  => (ver_result.ab.n > 0 /\ ver_result.ba.n < 0)

\* C27: compare_versions returns -1, 0 or 1 and nothing else.
C27_ThreeValues ==
    Compared => ver_result.ab \in {IntNum(0 - 1), IntNum(0), IntNum(1)}

\* the first suffix keyword of a valid version, "none" when it has none
FirstSuffix(ver) ==
    IF VerMatch(ver).sufs = <<>> THEN "none" ELSE VerMatch(ver).sufs[1][1]

\* alpha < beta < pre < rc < no suffix < p
SuffixRank(kind) ==
    CASE kind = "_alpha" -> 0 [] kind = "_beta" -> 1 [] kind = "_pre" -> 2
      [] kind = "_rc" -> 3 [] kind = "none" -> 4 [] kind = "_p" -> 5

\* two valid versions with the same numeric segments and final letter
SameMainVersion ==
    /\ Compared
    /\ Valid(ver_data[1].ver) /\ Valid(ver_data[2].ver)
    /\ VerMatch(ver_data[1].ver).major = VerMatch(ver_data[2].ver).major
    /\ VerMatch(ver_data[1].ver).segs = VerMatch(ver_data[2].ver).segs
    /\ VerMatch(ver_data[1].ver).letter = VerMatch(ver_data[2].ver).letter

\* C28: of two valid versions with the same numeric segments and letter,
\* whose first suffixes differ in kind, the one whose suffix comes first in
\* alpha < beta < pre < rc < (no suffix) < p is the older.
C28_SuffixPriority ==
    (SameMainVersion
     /\ FirstSuffix(ver_data[1].ver) # FirstSuffix(ver_data[2].ver))
        => Sign(ver_result.ab)
              = SignOf(SuffixRank(FirstSuffix(ver_data[1].ver))
                       - SuffixRank(FirstSuffix(ver_data[2].ver)))

\* the suffixes of the two versions are of the same kinds, with numerically
\* equal sub-revisions
RECURSIVE SuffixesEqual(_, _)
SuffixesEqual(sufs1, sufs2) ==
    IF sufs1 = <<>> \/ sufs2 = <<>> THEN sufs1 = sufs2
    ELSE /\ Head(sufs1)[1] = Head(sufs2)[1]
         /\ IntOf(Head(sufs1)[2]) = IntOf(Head(sufs2)[2])
         /\ SuffixesEqual(Tail(sufs1), Tail(sufs2))

\* C29: of two valid versions with the same numeric segments, letter and
\* suffixes, the result has the sign of the difference of the -rN
\* revisions, no revision being r0.
C29_RevisionDecides ==
    (SameMainVersion
     /\ SuffixesEqual(VerMatch(ver_data[1].ver).sufs,
                      VerMatch(ver_data[2].ver).sufs))
        => Sign(ver_result.ab)
              = SignOf(IntOf(VerMatch(ver_data[1].ver).rev)
                       - IntOf(VerMatch(ver_data[2].ver).rev))

\* C30: entropy_compare_versions has the sign of the comparison of the tags
\* when the tags differ, an absent tag included; of compare_versions of the
\* versions when the tags are equal; of the difference of the revisions
\* when that is 0 too.
C30_TagFirst ==
    ver_result.op = "entropy_compare_versions"
        => Sign(ver_result.ab)
              = IF ver_data[1].tag # ver_data[2].tag
                THEN const_cmp(ver_data[1].tag, ver_data[2].tag)
                ELSE IF compare_versions(ver_data[1].ver,
                                         ver_data[2].ver).n # 0
                THEN Sign(compare_versions(ver_data[1].ver, ver_data[2].ver))
                ELSE SignOf(ver_data[1].rev - ver_data[2].rev)

(***************************************************************************)
(* Properties of the sorter.                                               *)
(***************************************************************************)
\* the ways to arrange n elements
Arrangements(n) ==
    {f \in [1..n -> 1..n] : \A i \in 1..n, j \in 1..n : i # j => f[i] # f[j]}

\* list is inputlist rearranged by f, newest first, f keeping the input
\* order of the elements that compare equal
NewestFirst(op, inputlist, list, f) ==
    /\ \A k \in 1..Len(list) : list[k] = inputlist[f[k]]
    /\ \A k \in 1..Len(list), l \in 1..Len(list) :
          k < l => /\ cmp_func(op, list[k], list[l]).n >= 0
                   /\ cmp_func(op, list[k], list[l]).n = 0 => f[k] < f[l]

\* C31: what get_newer_version and get_entropy_newer_version return is a
\* permutation of the input list in which no element compares less than a
\* later one, the elements that compare equal being in their input order.
C31_SortedNewestFirst ==
    sorter.pc = "returned"
        => /\ Len(inputs) = Len(sorter.inputlist)
           /\ \E f \in Arrangements(Len(inputs)) :
                 NewestFirst(sorter.op, sorter.inputlist, inputs, f)

\* the sorter returns after as many turns of the while loop as the list
\* is long, at most (termination, the first part of C31)
C31_Terminates == sorter.passes <= Len(sorter.inputlist)

\* what the sorter returns is a permutation of its input
C31_Permutation ==
    sorter.pc = "returned"
        => /\ Len(inputs) = Len(sorter.inputlist)
           /\ \E f \in Arrangements(Len(inputs)) :
                 \A k \in 1..Len(inputs) : inputs[k] = sorter.inputlist[f[k]]

(***************************************************************************)
(* Properties of the extraction of use dependencies.                       *)
(***************************************************************************)
\* the positions of char in atom
Positions(atom, char) == {i \in 1..Len(atom) : atom[i] = char}

\* more than one bracket group
ManyGroups(atom) == Cardinality(Positions(atom, "[")) > 1

\* an empty group, "[]"
EmptyBrackets(atom) ==
    \E i \in Positions(atom, "[") : i < Len(atom) /\ atom[i + 1] = "]"

\* a "[" that no "]" closes
UnclosedBracket(atom) ==
    \E i \in Positions(atom, "[") :
        \A j \in Positions(atom, "]") : j < i

\* C32: dep_getusedeps raises InvalidAtom, and returns no tuple, for an
\* atom with more than one bracket group (comma separated or not), with an
\* empty "[]" or with an unclosed "[".
C32_InvalidRejected ==
    (usedeps.op = "dep_getusedeps"
     /\ (ManyGroups(depend) \/ EmptyBrackets(depend) \/ UnclosedBracket(depend)))
        => usedeps.raised

(***************************************************************************)
(* Properties of masking.                                                  *)
(***************************************************************************)
\* a persistent call op on package_match has just returned True
PersistentCall(c, op, package_match) ==
    /\ c.op = op
    /\ c.package_match = package_match
    /\ ~c.dry_run
    /\ c.ret = "True"

\* package_match, not masked, was masked by a persistent c and is now
\* unmasked by a persistent c, both returning True
MaskThenUnmask(package_match) ==
    /\ PersistentCall(mask_call, "mask_package", package_match)
    /\ ~mask_call.masked
    /\ PersistentCall(mask_call', "unmask_package", package_match)
    /\ mask_call' # mask_call

\* C33: a package that is not masked, persistently masked and then
\* persistently unmasked, by atom or by key and slot, is not masked.
C33_MaskUnmaskRestores ==
    [][\A package_match \in PackageMatches :
          MaskThenUnmask(package_match)
              => ~is_package_masked(MaskState', package_match, TRUE)]_vars

\* the call that has just returned was a persistent op that gave True
PersistentDone(op, package_match) ==
    /\ PersistentCall(mask_call', op, package_match)
    /\ mask_call' # mask_call \/ setting_files' # setting_files

\* the sources of the mask records, or of the unmask records
KindSources(kind) ==
    IF kind = "mask" THEN {"mask", "mask_d"} ELSE {"unmask", "unmask_d"}

\* no source of the given kind holds a line resolving to package_match,
\* and package_match is not in the live set of that kind
NoRecord(files, live, package_match, kind) ==
    /\ package_match \notin (IF kind = "mask" THEN live.mask_matches
                              ELSE live.unmask_matches)
    /\ \A src \in KindSources(kind) :
          \A i \in 1..Len(files[src].lines) :
              atom_match(files[src].lines[i]) # package_match

\* C34: after a persistent mask of a package returned True, no unmask
\* file, main or of the override directory, holds a record resolving to
\* that package and the package is not in the live unmask set; the same
\* for unmask and the mask records.  (The claim says this of the older
\* records of both kinds.)
C34_OldRecordsCleared ==
    [][\A package_match \in PackageMatches :
          /\ PersistentDone("mask_package", package_match)
                => NoRecord(setting_files', live_packagemasking',
                            package_match, "unmask")
          /\ PersistentDone("unmask_package", package_match)
                => NoRecord(setting_files', live_packagemasking',
                            package_match, "mask")]_vars

\* C35: a mask_package or unmask_package call with dry_run = True changes
\* no mask or unmask file, and nothing of what the settings read from them.
C35_DryRunWritesNothing ==
    [][mask_call'.dry_run
          => (setting_files' = setting_files /\ masking' = masking)]_vars

\* a dry run has put a package into the live mask set, with a mask file
\* that had lines to lose
C35_Witness ==
    /\ mask_call.dry_run
    /\ mask_call.ret = "True"
    /\ mask_call.package_match \in live_packagemasking.mask_matches
    /\ \E src \in MaskSources : setting_files[src].lines # <<>>

\* C40: no package is in the live mask set and in the live unmask set at
\* the same time.
C40_LiveSetsDisjoint ==
    live_packagemasking.mask_matches
        \cap live_packagemasking.unmask_matches = {}

\* a dry-run mask has put a package into the live mask set while the live
\* unmask set is not empty
C40_Witness ==
    /\ mask_call.op = "mask_package"
    /\ mask_call.dry_run
    /\ ~mask_call.masked
    /\ mask_call.package_match \in live_packagemasking.mask_matches
    /\ live_packagemasking.unmask_matches # {}

(***************************************************************************)
(* Invariants of the lock table and of the repository stack.               *)
(***************************************************************************)
\* C36: the reference count of the lock path is never negative, and
\* outside a running call it is greater than zero exactly when the process
\* holds a lock handle (mapped['ref'] is not None).
C36_CountIffHandle ==
    \A p \in Procs :
        /\ Count(p) >= 0
        /\ pc[p] = "idle" => ((Count(p) > 0) <=> (Ref(p) # NoRef))

\* no element occurs twice in seq
NoDuplicates(seq) ==
    \A i \in 1..Len(seq), j \in 1..Len(seq) : seq[i] = seq[j] => i = j

\* C37: neither settings['repositories']['order'] nor _enabled_repos holds
\* a repository id twice, and every enabled id is an available one.
C37_NoDuplicateIds ==
    /\ NoDuplicates(order)
    /\ NoDuplicates(enabled_repos)
    /\ Range(enabled_repos) \subseteq available

\* the kinds of the cached handles
HandleKinds(handles) == [id \in RepoIds |-> handles[id].kind]

\* add_repository was called for a persistent repository with an invalid id
AddsInvalid == last_call'.op = "add" /\ last_call'.id = InvalidId

\* C38: add of a persistent repository with an invalid id raises an error
\* and leaves the available map, the order, the enabled list and the
\* handle cache as they were.
C38_InvalidAddChangesNothing ==
    [][AddsInvalid
          => /\ last_call'.ret = "SecurityError"
             /\ available' = available
             /\ order' = order
             /\ enabled_repos' = enabled_repos
             /\ HandleKinds(repodb_cache') = HandleKinds(repodb_cache)]_vars

\* C39: entropy_compare_versions is transitive on (version, tag, revision)
\* triples, tagged or not: a <= b and b <= c give a <= c.
C39_EntropyTransitive ==
    (ver_result.op = "entropy_compare_versions"
     /\ ver_result.ab.n <= 0 /\ ver_result.bc.n <= 0)
        => ver_result.ac.n <= 0

====
